---- MODULE Spec2Model ----
(***************************************************************************)
(* Acquisition-and-repair pipeline of the candle collector: the retry     *)
(* loop of the range fetchers, the parallel fetch of one year, the gap    *)
(* detector, the repair of one missing range and the orchestration of one *)
(* year (main.py, fetch_missing_data.py, main2.py, ultra_spammer.py).     *)
(*                                                                         *)
(* Several state machines share the module; each specification drives one *)
(* of them and keeps the variables of the others at their idle values:    *)
(*   Spec                   process_single_year of main.py                 *)
(*   SpecRetry / FairSpecRetry   get_candles, get_candles_binance,         *)
(*                          fetch_interval_data (ultra_spammer.py)         *)
(*   SpecGap                find_missing_timestamps of main.py             *)
(*   SpecMissingRange       fetch_missing_range of fetch_missing_data.py   *)
(*   SpecParallel           the pools of fetch_year_data, fetch_day_data   *)
(*                          and main of fetch_missing_data.py              *)
(*   SpecMerge              merge_csv_files                                *)
(*   SpecValidate           validate_data (main.py), validate_bitcoin_data *)
(*   SpecFill               fill_missing_candles of main.py and of         *)
(*                          fetch_missing_data.py                          *)
(*   SpecDataset            validate_btc_dataset                           *)
(*   SpecInsert             insert_data_to_db of ultra_spammer.py          *)
(*   SpecUltra              the pool of ultra_spammer.py                   *)
(*   SpecCsv                merge_csv_files on the text of a file          *)
(*   SpecMain               the loop over the years of main (main.py)      *)
(*   SpecDedupe             dedupe_year of dedupe_all_years.py             *)
(*   SpecFix                fix_corrupted_data_all_years, one year file    *)
(*   SpecMerge2015          merge_2015_data                                *)
(***************************************************************************)
EXTENDS Integers, Sequences, FiniteSets, TLC

VARIABLES
    \* ---- process_single_year (main.py) ----
    files,            \* file name -> [exists, rows]
    pc,               \* position of process_single_year
    pending,          \* ids of the intervals whose future has not completed
    results,          \* fetch_year_data: results dict, start_ts -> csv rows
    completed_count,  \* fetch_year_data: completed_count
    failed,           \* ids of the intervals whose fetch returned None
    is_valid,         \* result of the last validate_data call of the run
    validated,        \* number of validate_data calls of the run
    fetchRuns,        \* number of times fetch_year_data was entered in the run
    repairRuns,       \* number of times the repair phase was entered in the run
    getCandlesCalls,  \* number of get_candles calls of the run
    runs,             \* number of invocations of process_single_year so far
    startValid,       \* the run found an existing file that passed validation
    fileAtStart,      \* the files when the run started
    secondary,        \* how the secondary source answered during the repair
    \* ---- retry loop of the range fetchers ----
    rc_fn,            \* the function being executed
    rc_pc,            \* "idle", "request" (about to issue the request), "done"
    retry_count,      \* the retry_count argument of the current activation
    rc_requests,      \* requests issued by the call so far
    rc_sleeps,        \* the backoff sleeps of the call, in order
    rc_responses,     \* kinds of the responses received by the call, in order
    rc_result,        \* value handed to the caller
    rc_notified,      \* slack notifications sent by the call
    \* ---- find_missing_timestamps (main.py) ----
    gd_timestamps,    \* unix_timestamp column of the file, in file order
    gd_pc,            \* "input", "done"
    gd_ranges,        \* the returned list of ranges
    \* ---- fetch_missing_range (fetch_missing_data.py) ----
    mr_range,         \* <<start_timestamp, end_timestamp>>
    mr_last,          \* the last known candle before the range
    mr_outcomes,      \* what get_candles_binance returned for each chunk
    mr_pc,            \* "input", "done"
    mr_result,        \* the csv rows returned, or None
    \* ---- the parallel fetch phase: fetch_year_data (main.py),
    \*      fetch_day_data (main2.py), main (fetch_missing_data.py) ----
    pp_prog,          \* the function that runs the pool
    pp_span,          \* <<start_unix, end_unix>> of the unit
    pp_tasks,         \* the submitted tasks, <<start, end>> each, in order
    pp_outcomes,      \* what the worker function of each task returns
    pp_pending,       \* indices of the tasks whose future has not been read
    pp_order,         \* indices of the tasks in the order they completed
    pp_results,       \* the results dict, start_ts -> csv rows
    pp_writes,        \* start_ts -> number of assignments to results[start_ts]
    pp_completed_count,    \* completed_count
    pp_all_missing_data,   \* all_missing_data of fetch_missing_data.py
    pp_successful_ranges,  \* successful_ranges of fetch_missing_data.py
    pp_pc,            \* "idle", "running", "written", "exited"
    pp_file,          \* the file written after the pool has joined
    \* ---- merge_csv_files ----
    mg_original,      \* the original file
    mg_missing,       \* the missing-data file
    mg_pc,            \* "idle", "input", "done"
    mg_ok,            \* the value returned
    mg_output,        \* the output file
    mg_duplicates_removed,  \* duplicates_removed
    \* ---- validate_data (main.py), validate_bitcoin_data ----
    vd_timestamps,    \* unix_timestamp column of the file, in file order
    vd_expected,      \* <<expected_start, expected_end>>, None where not given
    vd_pc,            \* "idle", "input", "done": validate_data
    vd_valid,         \* the value validate_data returned
    vd_missing,       \* its missing_timestamps
    vb_pc,            \* "idle", "input", "done": validate_bitcoin_data
    vb_valid,         \* the value validate_bitcoin_data returned
    vb_missing,       \* its missing_timestamps
    vb_duplicates,    \* its duplicate_timestamps
    \* ---- fill_missing_candles (main.py, fetch_missing_data.py) ----
    fl_candles,       \* the candles argument
    fl_window,        \* <<start_timestamp, end_timestamp>>
    fl_pc,            \* "idle", "input", "done": main.py
    fl_filled,        \* the list returned by main.py's function
    fl_fmd_pc,        \* "idle", "input", "done": fetch_missing_data.py
    fl_fmd_filled,    \* the list returned by fetch_missing_data.py's function
    \* ---- validate_btc_dataset ----
    ds_years,         \* the year files in year order, each a list of entries
    ds_pc,            \* "idle", "input", "done"
    ds_valid,         \* the value returned
    \* ---- ultra_spammer.py: the table and the pool ----
    db_table,         \* the rows of btc_price_data in order of insertion
    db_batch,         \* the data_batch of the last insert_data_to_db call
    db_ok,            \* the value that call returned
    db_inserts,       \* number of insert_data_to_db calls so far
    us_outcomes,      \* what fetch_interval_data returns for each interval
    us_pending,       \* indices of the intervals whose future has not been read
    us_completed_count,  \* completed_count
    us_pc,            \* "idle", "running", "joined"
    \* ---- a csv file read and written back by merge_csv_files ----
    cv_header,        \* the header line of the file read
    cv_lines,         \* its data lines, each a tuple of seven values
    cv_pc,            \* "idle", "input", "done"
    cv_out_header,    \* the header line written
    cv_out_lines,     \* the data lines written
    \* ---- main (main.py) ----
    mn_next,          \* position in range(STARTING_YEAR, CURRENT_YEAR + 1)
    mn_started,       \* the years process_single_year was called for, in order
    mn_successful_years,  \* successful_years
    mn_failed_years,  \* failed_years
    mn_interrupted,   \* the year during which KeyboardInterrupt was raised
    mn_pc,            \* "idle", "loop", "summary"
    \* ---- dedupe_year (dedupe_all_years.py) ----
    dd_file,          \* the year file
    dd_backup,        \* the file input_file + '.backup'
    dd_total_rows,    \* total_rows of the last call
    dd_duplicates_removed,  \* duplicates_removed of the last call
    dd_runs,          \* number of calls so far
    dd_pc,            \* "idle", "ready", "raised"
    \* ---- fix_corrupted_data_all_years, for one year file ----
    fx_file,          \* the year file
    fx_backup,        \* the file filepath + '.backup3'
    fx_fixed,         \* fixed_this_year
    fx_pc,            \* "idle", "input", "done"
    \* ---- merge_2015_data ----
    m15_bitstamp,     \* rows of the Bitstamp file
    m15_coinbase,     \* rows of the Coinbase file
    m15_choice,       \* what the operator typed
    m15_output,       \* the merged file
    m15_pc            \* "idle", "input", "done"

pipeVars == <<files, pc, pending, results, completed_count, failed, is_valid,
              validated, fetchRuns, repairRuns, getCandlesCalls, runs,
              startValid, fileAtStart, secondary>>
retryVars == <<rc_fn, rc_pc, retry_count, rc_requests, rc_sleeps, rc_responses,
               rc_result, rc_notified>>
gapVars == <<gd_timestamps, gd_pc, gd_ranges>>
rangeVars == <<mr_range, mr_last, mr_outcomes, mr_pc, mr_result>>
parVars == <<pp_prog, pp_span, pp_tasks, pp_outcomes, pp_pending, pp_order,
             pp_results, pp_writes, pp_completed_count, pp_all_missing_data,
             pp_successful_ranges, pp_pc, pp_file>>
mergeVars == <<mg_original, mg_missing, mg_pc, mg_ok, mg_output,
               mg_duplicates_removed>>
valVars == <<vd_timestamps, vd_expected, vd_pc, vd_valid, vd_missing,
             vb_pc, vb_valid, vb_missing, vb_duplicates>>
restVars == <<parVars, mergeVars, valVars>>
fillVars == <<fl_candles, fl_window, fl_pc, fl_filled, fl_fmd_pc, fl_fmd_filled>>
dsVars == <<ds_years, ds_pc, ds_valid>>
dbVars == <<db_table, db_batch, db_ok, db_inserts, us_outcomes, us_pending,
            us_completed_count, us_pc>>
csvVars == <<cv_header, cv_lines, cv_pc, cv_out_header, cv_out_lines>>
moreVars == <<fillVars, dsVars, dbVars, csvVars>>
mainVars == <<mn_next, mn_started, mn_successful_years, mn_failed_years,
              mn_interrupted, mn_pc>>
ddVars == <<dd_file, dd_backup, dd_total_rows, dd_duplicates_removed, dd_runs,
            dd_pc>>
fxVars == <<fx_file, fx_backup, fx_fixed, fx_pc>>
m15Vars == <<m15_bitstamp, m15_coinbase, m15_choice, m15_output, m15_pc>>
lastVars == <<mainVars, ddVars, fxVars, m15Vars>>
vars == <<pipeVars, retryVars, gapVars, rangeVars, restVars, moreVars, lastVars>>

(***************************************************************************)
(* Bounds of the model                                                     *)
(***************************************************************************)
\* candles per Coinbase request (300 in main.py:15, scaled down)
MAX_CANDLES_PER_REQUEST == 2
\* candles per Binance chunk (1000 in fetch_missing_data.py:13, scaled down)
MAX_CANDLES_PER_CHUNK == 2
\* minutes of the unit's span (a year in main.py, scaled down)
SpanCandles == 7
\* invocations of process_single_year on the same unit
MaxRuns == 3
\* rows of the file handed to the gap detector
MaxLen == 3
\* grid positions the gap detector's timestamps are drawn from
MaxTs == 4
\* grid positions the missing ranges are drawn from
MaxRangeTs == 5

(***************************************************************************)
(* Program constants                                                       *)
(***************************************************************************)
GRANULARITY == 60
MAX_RETRIES == 5
RETRY_DELAY == 2
start_unix == 0
end_unix == start_unix + SpanCandles * GRANULARITY
delta == GRANULARITY * MAX_CANDLES_PER_REQUEST

\* Python's None, and a value wrapped so that it can be compared with None
None == <<>>
Some(v) == <<v>>
Val(o) == o[1]

Min(a, b) == IF a <= b THEN a ELSE b

(***************************************************************************)
(* Lists                                                                   *)
(***************************************************************************)
RECURSIVE InsertByKey(_, _, _)
\* insert x after every element whose key is <= Key(x): keeps the order
\* of equal keys, as Python's stable sort does
InsertByKey(x, s, k) ==
    IF s = <<>> THEN <<x>>
    ELSE IF s[1][k] <= x[k] THEN <<s[1]>> \o InsertByKey(x, Tail(s), k)
    ELSE <<x>> \o s

RECURSIVE SortByKey(_, _)
\* sorted(s, key=lambda c: c[k]) -- stable
SortByKey(s, k) ==
    IF s = <<>> THEN <<>>
    ELSE InsertByKey(s[Len(s)], SortByKey(SubSeq(s, 1, Len(s) - 1), k), k)

RECURSIVE InsertInt(_, _)
InsertInt(x, s) ==
    IF s = <<>> THEN <<x>>
    ELSE IF s[1] <= x THEN <<s[1]>> \o InsertInt(x, Tail(s))
    ELSE <<x>> \o s

RECURSIVE SortInts(_)
\* timestamps.sort()
SortInts(s) ==
    IF s = <<>> THEN <<>>
    ELSE InsertInt(s[Len(s)], SortInts(SubSeq(s, 1, Len(s) - 1)))

RECURSIVE SortedKeys(_)
\* sorted(results.keys())
SortedKeys(S) ==
    IF S = {} THEN <<>>
    ELSE LET m == CHOOSE x \in S : \A y \in S : x <= y
         IN <<m>> \o SortedKeys(S \ {m})

Range(s) == {s[i] : i \in 1..Len(s)}

RECURSIVE Flatten(_)
Flatten(ss) == IF ss = <<>> THEN <<>> ELSE ss[1] \o Flatten(Tail(ss))

(***************************************************************************)
(* Candles and rows                                                        *)
(***************************************************************************)
\* strftime('%Y-%m-%d %H:%M:%S') of a unix time: the formatted fields
\* (days, hours, minutes, seconds)
Iso(t) == <<t \div 86400, (t % 86400) \div 3600, (t % 3600) \div 60, t % 60>>

\* the dict appended to csv_rows from a candle [time, low, high, open, close, volume]
CsvRow(candle) ==
    [timestamp |-> Iso(candle[1]),
     open |-> candle[4],
     close |-> candle[5],
     volume |-> candle[6],
     unix_timestamp |-> candle[1],
     high |-> candle[3],
     low |-> candle[2]]

CsvRows(data) == [i \in 1..Len(data) |-> CsvRow(data[i])]

\* the unix_timestamp column of a file's rows, as read by csv.DictReader
Timestamps(rows) == [i \in 1..Len(rows) |-> rows[i].unix_timestamp]

NoFile == [exists |-> FALSE, rows |-> <<>>]
File(rows) == [exists |-> TRUE, rows |-> rows]

(***************************************************************************)
(* fill_missing_candles                                                    *)
(***************************************************************************)
\* a synthesized candle that keeps the time of the last candle
Synthesized_LastTime(expected_time, last_candle) ==
    IF last_candle # None
    THEN <<Val(last_candle)[1], Val(last_candle)[2], Val(last_candle)[3],
           Val(last_candle)[4], Val(last_candle)[5], 0>>
    ELSE <<expected_time, 0, 0, 0, 0, 0>>

\* the candle appended for an expected time the response does not hold
Synthesized(expected_time, last_candle) ==
    IF last_candle # None
    THEN <<expected_time, Val(last_candle)[2], Val(last_candle)[3],
           Val(last_candle)[4], Val(last_candle)[5], 0>>
    ELSE <<expected_time, 0, 0, 0, 0, 0>>

RECURSIVE FillLoop(_, _, _, _, _, _, _)
\* the while loop of fill_missing_candles; inclusive tells `<=` from `<`
FillLoop(candles, expected_time, end_timestamp, idx, last_candle, filled, inclusive) ==
    IF ~(IF inclusive THEN expected_time <= end_timestamp
                      ELSE expected_time < end_timestamp)
    THEN filled
    ELSE IF idx <= Len(candles) /\ candles[idx][1] = expected_time
         THEN FillLoop(candles, expected_time + GRANULARITY, end_timestamp, idx + 1,
                       Some(candles[idx]), Append(filled, candles[idx]), inclusive)
         ELSE FillLoop(candles, expected_time + GRANULARITY, end_timestamp, idx,
                       last_candle,
                       Append(filled, Synthesized(expected_time, last_candle)),
                       inclusive)

\* main.py: the window is [start_timestamp, end_timestamp)
fill_missing_candles(candles, start_timestamp, end_timestamp) ==
    FillLoop(SortByKey(candles, 1), start_timestamp, end_timestamp, 1, None,
             <<>>, FALSE)

\* fetch_missing_data.py: the window is [start_timestamp, end_timestamp]
fmd_fill_missing_candles(candles, start_timestamp, end_timestamp) ==
    FillLoop(SortByKey(candles, 1), start_timestamp, end_timestamp, 1, None,
             <<>>, TRUE)

(***************************************************************************)
(* validate_data (main.py)                                                 *)
(***************************************************************************)
RECURSIVE MissingLoop(_, _, _, _)
\* the while loop that collects missing_timestamps
MissingLoop(expected_timestamp, expected_end, timestamp_set, missing_timestamps) ==
    IF ~(expected_timestamp <= expected_end) THEN missing_timestamps
    ELSE MissingLoop(expected_timestamp + 60, expected_end, timestamp_set,
                     IF expected_timestamp \notin timestamp_set
                     THEN Append(missing_timestamps, expected_timestamp)
                     ELSE missing_timestamps)

\* a validator that starts at the first row whatever expected_start is
validate_missing_FromFirstRow(rows, expected_start, expected_end) ==
    LET timestamps == SortInts(Timestamps(rows))
        ee == IF expected_end = None THEN timestamps[Len(timestamps)]
              ELSE Val(expected_end)
    IN MissingLoop(timestamps[1], ee, Range(timestamps), <<>>)

\* the missing_timestamps list of validate_data for a readable, non-empty file
validate_missing(rows, expected_start, expected_end) ==
    LET timestamps == SortInts(Timestamps(rows))
        es == IF expected_start = None THEN timestamps[1] ELSE Val(expected_start)
        ee == IF expected_end = None THEN timestamps[Len(timestamps)]
              ELSE Val(expected_end)
    IN MissingLoop(es, ee, Range(timestamps), <<>>)

validate_data(file, expected_start, expected_end) ==
    IF ~file.exists THEN FALSE
    ELSE IF Timestamps(file.rows) = <<>> THEN FALSE
    ELSE validate_missing(file.rows, expected_start, expected_end) = <<>>

(***************************************************************************)
(* find_missing_timestamps, group_consecutive_timestamps (main.py)         *)
(***************************************************************************)
\* a range closed at its first timestamp instead of its last
CloseRange_StartOnly(missing_ranges, current_missing_start, current_missing_end) ==
    Append(missing_ranges, <<current_missing_start, current_missing_start>>)

\* missing_ranges.append((current_missing_start, current_missing_end))
CloseRange(missing_ranges, current_missing_start, current_missing_end) ==
    Append(missing_ranges, <<current_missing_start, current_missing_end>>)

RECURSIVE GapLoop(_, _, _, _, _, _)
\* the while loop of find_missing_timestamps, the trailing append included
GapLoop(expected_timestamp, last, timestamp_set, current_missing_start, current_missing_end, missing_ranges) ==
    IF ~(expected_timestamp <= last)
    THEN IF current_missing_start # None
         THEN CloseRange(missing_ranges, Val(current_missing_start),
                         Val(current_missing_end))
         ELSE missing_ranges
    ELSE IF expected_timestamp \notin timestamp_set
         THEN GapLoop(expected_timestamp + 60, last, timestamp_set,
                      IF current_missing_start = None
                      THEN Some(expected_timestamp) ELSE current_missing_start,
                      Some(expected_timestamp), missing_ranges)
         ELSE IF current_missing_start # None
              THEN GapLoop(expected_timestamp + 60, last, timestamp_set, None,
                           current_missing_end,
                           CloseRange(missing_ranges,
                                      Val(current_missing_start),
                                      Val(current_missing_end)))
              ELSE GapLoop(expected_timestamp + 60, last, timestamp_set,
                           current_missing_start, current_missing_end,
                           missing_ranges)

\* find_missing_timestamps on the unix_timestamp column read from the file
MissingRangesOf(column) ==
    IF column = <<>> THEN <<>>
    ELSE LET timestamps == SortInts(column)
         IN GapLoop(timestamps[1], timestamps[Len(timestamps)],
                    Range(timestamps), None, None, <<>>)

find_missing_timestamps(file) ==
    IF ~file.exists THEN <<>> ELSE MissingRangesOf(Timestamps(file.rows))

RECURSIVE GroupLoop(_, _, _, _, _)
GroupLoop(missing_timestamps, i, current_start, current_end, ranges) ==
    IF i > Len(missing_timestamps)
    THEN Append(ranges, <<current_start, current_end>>)
    ELSE IF missing_timestamps[i] = current_end + 60
         THEN GroupLoop(missing_timestamps, i + 1, current_start,
                        missing_timestamps[i], ranges)
         ELSE GroupLoop(missing_timestamps, i + 1, missing_timestamps[i],
                        missing_timestamps[i],
                        Append(ranges, <<current_start, current_end>>))

\* a grouping that makes a range of every single timestamp
group_consecutive_timestamps_Singletons(missing_timestamps) ==
    [i \in 1..Len(missing_timestamps) |->
        <<missing_timestamps[i], missing_timestamps[i]>>]

group_consecutive_timestamps(missing_timestamps) ==
    IF missing_timestamps = <<>> THEN <<>>
    ELSE GroupLoop(missing_timestamps, 2, missing_timestamps[1],
                   missing_timestamps[1], <<>>)

RECURSIVE Expand(_, _)
\* current_ts = start_ts; while current_ts <= end_ts: append; current_ts += 60
Expand(current_ts, end_ts) ==
    IF ~(current_ts <= end_ts) THEN <<>>
    ELSE <<current_ts>> \o Expand(current_ts + 60, end_ts)

\* all_missing_timestamps of find_and_fetch_missing_data_integrated
ExpandRanges(missing_ranges) ==
    Flatten([i \in 1..Len(missing_ranges) |->
                 Expand(missing_ranges[i][1], missing_ranges[i][2])])

(***************************************************************************)
(* merge_csv_files (main.py)                                               *)
(***************************************************************************)
\* a key that sorts the newest row first
SortKey_Negated(row) == 0 - row.unix_timestamp

\* key=lambda x: int(x['unix_timestamp'])
SortKey(row) == row.unix_timestamp

RECURSIVE InsertRow(_, _)
InsertRow(x, s) ==
    IF s = <<>> THEN <<x>>
    ELSE IF SortKey(s[1]) <= SortKey(x)
         THEN <<s[1]>> \o InsertRow(x, Tail(s))
         ELSE <<x>> \o s

RECURSIVE SortRows(_)
\* all_data.sort(key=lambda x: int(x['unix_timestamp'])) -- stable
SortRows(s) ==
    IF s = <<>> THEN <<>>
    ELSE InsertRow(s[Len(s)], SortRows(SubSeq(s, 1, Len(s) - 1)))

RECURSIVE Unique(_, _, _)
\* keep the first row of every timestamp
Unique(all_data, seen_timestamps, unique_data) ==
    IF all_data = <<>> THEN unique_data
    ELSE IF all_data[1].unix_timestamp \notin seen_timestamps
         THEN Unique(Tail(all_data),
                     seen_timestamps \cup {all_data[1].unix_timestamp},
                     Append(unique_data, all_data[1]))
         ELSE Unique(Tail(all_data), seen_timestamps, unique_data)

RECURSIVE DuplicatesRemoved(_, _, _)
\* the else branch of the same loop: duplicates_removed += 1
DuplicatesRemoved(all_data, seen_timestamps, duplicates_removed) ==
    IF all_data = <<>> THEN duplicates_removed
    ELSE IF all_data[1].unix_timestamp \notin seen_timestamps
         THEN DuplicatesRemoved(Tail(all_data),
                                seen_timestamps \cup {all_data[1].unix_timestamp},
                                duplicates_removed)
         ELSE DuplicatesRemoved(Tail(all_data), seen_timestamps,
                                duplicates_removed + 1)

\* an open of the original file that never fails
OriginalNotFound_Never(original_file) == FALSE

\* 'except FileNotFoundError' of the first reading loop: the original file
\* does not exist
OriginalNotFound(original_file) == ~original_file.exists

\* the rows of the missing-data file read before those of the original
AllData_MissingFirst(original_file, missing_data_file) ==
    (IF missing_data_file.exists THEN missing_data_file.rows ELSE <<>>) \o
    original_file.rows

\* all_data after the two reading loops: the rows of the original file, then
\* those of the missing-data file when it exists
AllData(original_file, missing_data_file) ==
    original_file.rows \o
    (IF missing_data_file.exists THEN missing_data_file.rows ELSE <<>>)

\* a merge that sorts and removes nothing
merge_csv_files_KeepAll(original_file, missing_data_file) ==
    IF ~original_file.exists
    THEN [ok |-> FALSE, rows |-> <<>>, duplicates_removed |-> 0]
    ELSE [ok |-> TRUE,
          rows |-> SortRows(AllData(original_file, missing_data_file)),
          duplicates_removed |-> 0]

\* [ok, rows, duplicates_removed]: the return value, the rows written to
\* output_file, the counter
merge_csv_files(original_file, missing_data_file) ==
    IF OriginalNotFound(original_file)
    THEN [ok |-> FALSE, rows |-> <<>>, duplicates_removed |-> 0]
    ELSE LET all_data == SortRows(AllData(original_file, missing_data_file))
         IN [ok |-> TRUE,
             rows |-> Unique(all_data, {}, <<>>),
             duplicates_removed |-> DuplicatesRemoved(all_data, {}, 0)]

(***************************************************************************)
(* The two sources                                                         *)
(***************************************************************************)
\* a candle of the primary source, [time, low, high, open, close, volume]
PrimaryCandle(t) ==
    LET o == 100 + t \div GRANULARITY
    IN <<t, o - 1, o + 2, o, o + 1, 5>>

\* a kline of the secondary source,
\* [open time in ms, open, high, low, close, volume, ...]
SecondaryKline(t) ==
    LET o == 200 + t \div GRANULARITY
    IN <<t * 1000, o, o + 2, o - 1, o + 1, 3>>

\* the grid timestamps a, a + 60, ... <= b in ascending order
Grid(a, b) == Expand(a, b)

RECURSIVE Descending(_)
\* the timestamps of a set, newest first (the order of the primary source)
Descending(S) ==
    IF S = {} THEN <<>>
    ELSE LET m == CHOOSE x \in S : \A y \in S : y <= x
         IN <<m>> \o Descending(S \ {m})

\* the bodies a 200 response of the primary source can carry for the window
\* [start, end]: the candles of any subset of the window's minutes
PrimaryBodies(start, end) ==
    {[i \in 1..Len(Descending(S)) |-> PrimaryCandle(Descending(S)[i])] :
        S \in SUBSET Range(Grid(start, end))}

\* what one call of get_candles ends with: retries exhausted, or a 200 body
PrimaryOutcomes(start, end) ==
    {[status |-> "exhausted", body |-> <<>>]} \cup
    {[status |-> "ok", body |-> b] : b \in PrimaryBodies(start, end)}

\* the value get_candles returns for the response that ends the call:
\* `return data if data else None` on 200, None once retries are exhausted
get_candles_return(outcome) ==
    IF outcome.status = "ok"
    THEN IF outcome.body # <<>> THEN Some(outcome.body) ELSE None
    ELSE None

\* fetch_interval_data of main.py: <<csv_rows or None, start_unix, end_unix>>
fetch_interval_data(start, end, outcome) ==
    LET raw_data == get_candles_return(outcome)
    IN IF raw_data = None THEN <<None, start, end>>
       ELSE <<Some(CsvRows(fill_missing_candles(Val(raw_data), start, end))),
              start, end>>

\* the conversion loop of get_candles_binance: ms to seconds, and the
\* fields reordered to [time, low, high, open, close, volume]
ConvertKline(kline) ==
    <<kline[1] \div 1000, kline[4], kline[3], kline[2], kline[5], kline[6]>>

\* the value get_candles_binance returns for the response that ends the call
get_candles_binance_return(outcome) ==
    IF outcome.status = "ok"
    THEN IF outcome.body = <<>> THEN None
         ELSE Some([i \in 1..Len(outcome.body) |-> ConvertKline(outcome.body[i])])
    ELSE None

\* the answer of the secondary source to a chunk request in one of its modes:
\* "full" holds a kline for every minute of [chunk_start, chunk_end]
SecondaryOutcome(mode, chunk_start, chunk_end) ==
    IF mode = "full"
    THEN [status |-> "ok",
          body |-> [i \in 1..Len(Grid(chunk_start, chunk_end)) |->
                       SecondaryKline(Grid(chunk_start, chunk_end)[i])]]
    ELSE IF mode = "empty" THEN [status |-> "ok", body |-> <<>>]
    ELSE [status |-> "exhausted", body |-> <<>>]

SecondaryModes == {"full", "empty", "unreachable"}

(***************************************************************************)
(* fetch_year_data: the intervals                                          *)
(***************************************************************************)
\* a window that is never clipped to the end of the span
WindowEnd_NoClip(current_start, d, end) == current_start + d

\* current_end = min(current_start + delta, end_unix)
WindowEnd(current_start, d, end) == Min(current_start + d, end)

RECURSIVE IntervalsFrom(_, _)
IntervalsFrom(current_start, interval_id) ==
    IF ~(current_start < end_unix) THEN <<>>
    ELSE LET current_end == WindowEnd(current_start, delta, end_unix)
         IN <<<<current_start, current_end, interval_id>>>> \o
            IntervalsFrom(current_end, interval_id + 1)

intervals == IntervalsFrom(start_unix, 0)

IntervalIds == {intervals[i][3] : i \in 1..Len(intervals)}
IntervalOf(iid) == intervals[iid + 1]

(***************************************************************************)
(* fetch_missing_range                                                     *)
(***************************************************************************)
\* a chunk that ends one period later
ChunkEnd_OnePeriodLater(current_start, end_ts, max_chunk_size) ==
    Min(current_start + max_chunk_size, end_ts)

\* current_end = min(current_start + MAX_CHUNK_SIZE - 60, end_ts)
ChunkEnd(current_start, end_ts, max_chunk_size) ==
    Min(current_start + max_chunk_size - 60, end_ts)

RECURSIVE Chunks(_, _, _)
\* the chunks of [current_start, end_ts], max_chunk_size seconds each
Chunks(current_start, end_ts, max_chunk_size) ==
    IF ~(current_start <= end_ts) THEN <<>>
    ELSE LET current_end == ChunkEnd(current_start, end_ts, max_chunk_size)
         IN <<<<current_start, current_end>>>> \o
            Chunks(current_end + 60, end_ts, max_chunk_size)

MAX_CHUNK_SIZE == MAX_CANDLES_PER_CHUNK * 60

\* fetch_missing_data.py: raw[i] is what get_candles_binance returned for
\* chunk i; the result is the csv rows, or None
fmd_fetch_missing_range(start_ts, end_ts, raw) ==
    LET chunks == Chunks(start_ts, end_ts, MAX_CHUNK_SIZE)
        all_data == Flatten([i \in 1..Len(chunks) |->
                        IF raw[i] = None THEN <<>>
                        ELSE fmd_fill_missing_candles(Val(raw[i]), chunks[i][1],
                                                      chunks[i][2])])
    IN IF all_data = <<>> THEN None ELSE Some(CsvRows(all_data))

\* main.py binds no function to the name get_candles_binance: the text of
\* its body follows the return statements of fetch_interval_data
get_candles_binance_defined == FALSE

\* main.py: the call of get_candles_binance raises NameError, which the
\* except clause of fetch_missing_range turns into None
fetch_missing_range(start_ts, end_ts, mode) ==
    IF ~get_candles_binance_defined THEN None
    ELSE LET chunks == Chunks(start_ts, end_ts, MAX_CHUNK_SIZE)
             raw == [i \in 1..Len(chunks) |->
                        get_candles_binance_return(
                            SecondaryOutcome(mode, chunks[i][1], chunks[i][2]))]
             all_data == Flatten([i \in 1..Len(chunks) |->
                             IF raw[i] = None THEN <<>>
                             ELSE fill_missing_candles(Val(raw[i]), chunks[i][1],
                                                       chunks[i][2])])
         IN IF all_data = <<>> THEN None ELSE Some(CsvRows(all_data))

(***************************************************************************)
(* find_and_fetch_missing_data_integrated (main.py)                        *)
(***************************************************************************)
\* a repair that removes the unit's file when nothing was retrieved
NoDataRetrieved_DropsOriginal(fs) ==
    [ok |-> FALSE, files |-> [fs EXCEPT !["year"] = NoFile],
     validated |-> FALSE, valid |-> FALSE]

\* lines 686-688: 'No missing data was retrieved', return False; no file
\* has been written
NoDataRetrieved(fs) ==
    [ok |-> FALSE, files |-> fs, validated |-> FALSE, valid |-> FALSE]

\* [ok, files, validated, valid]: the return value, the files it leaves,
\* whether it called validate_data and what that returned
find_and_fetch_missing_data_integrated(fs, mode) ==
    LET unchanged(ok) == [ok |-> ok, files |-> fs, validated |-> FALSE,
                          valid |-> FALSE]
        missing_ranges == find_missing_timestamps(fs["year"])
        grouped_ranges == group_consecutive_timestamps(ExpandRanges(missing_ranges))
        all_missing_data ==
            Flatten([i \in 1..Len(grouped_ranges) |->
                LET missing_rows == fetch_missing_range(grouped_ranges[i][1],
                                                        grouped_ranges[i][2], mode)
                IN IF missing_rows # None /\ Val(missing_rows) # <<>>
                   THEN Val(missing_rows) ELSE <<>>])
        missing_data_file == File(all_missing_data)
        merged == merge_csv_files(fs["year"], missing_data_file)
        complete_file == File(merged.rows)
        written == [fs EXCEPT !["missing"] = missing_data_file,
                              !["complete"] = IF merged.ok THEN complete_file
                                              ELSE @]
        valid == validate_data(complete_file, None, None)
    IN IF missing_ranges = <<>> THEN unchanged(TRUE)
       ELSE IF grouped_ranges = <<>> THEN unchanged(TRUE)
       ELSE IF all_missing_data = <<>> THEN NoDataRetrieved(fs)
       ELSE IF ~merged.ok
            THEN [ok |-> FALSE, files |-> written, validated |-> FALSE,
                  valid |-> FALSE]
       ELSE IF valid
            THEN [ok |-> TRUE,
                  files |-> [written EXCEPT !["year"] = complete_file,
                                            !["complete"] = NoFile,
                                            !["missing"] = NoFile],
                  validated |-> TRUE, valid |-> TRUE]
       ELSE [ok |-> FALSE, files |-> written, validated |-> TRUE,
             valid |-> FALSE]

(***************************************************************************)
(* Idle values of the machines                                             *)
(***************************************************************************)
PipeIdle ==
    /\ files = [f \in {"year", "missing", "complete"} |-> NoFile]
    /\ pc = "NotStarted"
    /\ pending = {}
    /\ results = <<>>
    /\ completed_count = 0
    /\ failed = {}
    /\ is_valid = FALSE
    /\ validated = 0
    /\ fetchRuns = 0
    /\ repairRuns = 0
    /\ getCandlesCalls = 0
    /\ runs = 0
    /\ startValid = FALSE
    /\ fileAtStart = files
    /\ secondary = "none"

RetryIdle ==
    /\ rc_fn = "none"
    /\ rc_pc = "idle"
    /\ retry_count = 0
    /\ rc_requests = 0
    /\ rc_sleeps = <<>>
    /\ rc_responses = <<>>
    /\ rc_result = "none"
    /\ rc_notified = 0

GapIdle ==
    /\ gd_timestamps = <<>>
    /\ gd_pc = "idle"
    /\ gd_ranges = <<>>

RangeIdle ==
    /\ mr_range = <<0, 0>>
    /\ mr_last = None
    /\ mr_outcomes = <<>>
    /\ mr_pc = "idle"
    /\ mr_result = None

ParIdle ==
    /\ pp_prog = "none"
    /\ pp_span = <<0, 0>>
    /\ pp_tasks = <<>>
    /\ pp_outcomes = <<>>
    /\ pp_pending = {}
    /\ pp_order = <<>>
    /\ pp_results = <<>>
    /\ pp_writes = <<>>
    /\ pp_completed_count = 0
    /\ pp_all_missing_data = <<>>
    /\ pp_successful_ranges = 0
    /\ pp_pc = "idle"
    /\ pp_file = NoFile

MergeIdle ==
    /\ mg_original = NoFile
    /\ mg_missing = NoFile
    /\ mg_pc = "idle"
    /\ mg_ok = FALSE
    /\ mg_output = NoFile
    /\ mg_duplicates_removed = 0

ValIdle ==
    /\ vd_timestamps = <<>>
    /\ vd_expected = <<None, None>>
    /\ vd_pc = "idle"
    /\ vd_valid = FALSE
    /\ vd_missing = <<>>
    /\ vb_pc = "idle"
    /\ vb_valid = FALSE
    /\ vb_missing = <<>>
    /\ vb_duplicates = <<>>

RestIdle == ParIdle /\ MergeIdle /\ ValIdle

FillIdle ==
    /\ fl_candles = <<>>
    /\ fl_window = <<0, 0>>
    /\ fl_pc = "idle"
    /\ fl_filled = <<>>
    /\ fl_fmd_pc = "idle"
    /\ fl_fmd_filled = <<>>

DatasetIdle ==
    /\ ds_years = <<>>
    /\ ds_pc = "idle"
    /\ ds_valid = FALSE

DbIdle ==
    /\ db_table = <<>>
    /\ db_batch = <<>>
    /\ db_ok = FALSE
    /\ db_inserts = 0
    /\ us_outcomes = <<>>
    /\ us_pending = {}
    /\ us_completed_count = 0
    /\ us_pc = "idle"

CsvIdle ==
    /\ cv_header = <<>>
    /\ cv_lines = <<>>
    /\ cv_pc = "idle"
    /\ cv_out_header = <<>>
    /\ cv_out_lines = <<>>

MoreIdle == FillIdle /\ DatasetIdle /\ DbIdle /\ CsvIdle

MainIdle ==
    /\ mn_next = 0
    /\ mn_started = <<>>
    /\ mn_successful_years = <<>>
    /\ mn_failed_years = <<>>
    /\ mn_interrupted = None
    /\ mn_pc = "idle"

DedupeIdle ==
    /\ dd_file = NoFile
    /\ dd_backup = NoFile
    /\ dd_total_rows = 0
    /\ dd_duplicates_removed = 0
    /\ dd_runs = 0
    /\ dd_pc = "idle"

FixIdle ==
    /\ fx_file = NoFile
    /\ fx_backup = NoFile
    /\ fx_fixed = 0
    /\ fx_pc = "idle"

Merge2015Idle ==
    /\ m15_bitstamp = <<>>
    /\ m15_coinbase = <<>>
    /\ m15_choice = ""
    /\ m15_output = NoFile
    /\ m15_pc = "idle"

LastIdle == MainIdle /\ DedupeIdle /\ FixIdle /\ Merge2015Idle

(***************************************************************************)
(* process_single_year (main.py)                                           *)
(***************************************************************************)
Init == PipeIdle /\ RetryIdle /\ GapIdle /\ RangeIdle /\ RestIdle /\ MoreIdle /\ LastIdle

\* an orchestrator that fetches again although the file is valid
StartTarget_AlwaysFetch(exists, valid) ==
    IF exists /\ ~valid THEN "Validating" ELSE "Fetching"

\* lines 698-714: where process_single_year goes after looking for the file
StartTarget(exists, valid) ==
    IF exists THEN (IF valid THEN "Complete" ELSE "Validating")
    ELSE "Fetching"

\* lines 690-714: the call, the check of an existing file, the entry into
\* fetch_year_data
Start ==
    /\ pc \in {"NotStarted", "Complete", "Failed"}
    /\ runs < MaxRuns
    /\ runs' = runs + 1
    /\ fileAtStart' = files
    /\ repairRuns' = 0
    /\ getCandlesCalls' = 0
    /\ failed' = {}
    /\ results' = <<>>
    /\ completed_count' = 0
    /\ secondary' = "none"
    /\ is_valid' = validate_data(files["year"], None, None)
    /\ validated' = IF files["year"].exists THEN 1 ELSE 0
    /\ startValid' = is_valid'
    /\ pc' = StartTarget(files["year"].exists, is_valid')
    /\ fetchRuns' = IF pc' = "Fetching" THEN 1 ELSE 0
    /\ pending' = IF pc' = "Fetching" THEN IntervalIds ELSE {}
    /\ UNCHANGED <<files, retryVars, gapVars, rangeVars, restVars, moreVars, lastVars>>

\* one iteration of the as_completed loop of fetch_year_data: the future of
\* interval iid completes with what fetch_interval_data returned
FetchInterval(iid) ==
    /\ pc = "Fetching"
    /\ iid \in pending
    /\ \E outcome \in PrimaryOutcomes(IntervalOf(iid)[1], IntervalOf(iid)[2]) :
          LET r == fetch_interval_data(IntervalOf(iid)[1], IntervalOf(iid)[2],
                                       outcome)
          IN /\ results' = IF r[1] # None THEN (r[2] :> Val(r[1])) @@ results
                           ELSE results
             /\ failed' = IF r[1] = None THEN failed \cup {iid} ELSE failed
    /\ completed_count' = completed_count + 1
    /\ getCandlesCalls' = getCandlesCalls + 1
    /\ pending' = pending \ {iid}
    /\ UNCHANGED <<files, pc, is_valid, validated, fetchRuns, repairRuns, runs,
                   startValid, fileAtStart, secondary, retryVars, gapVars, rangeVars, restVars, moreVars, lastVars>>

\* the results written in the order in which the tasks completed
WrittenRows_CompletionOrder(res) ==
    Flatten([i \in 1..Len(pp_order) |->
                IF pp_tasks[pp_order[i]][1] \in DOMAIN res
                THEN res[pp_tasks[pp_order[i]][1]] ELSE <<>>])

\* the rows fetch_year_data writes: the results in ascending order of key
WrittenRows(res) ==
    Flatten([i \in 1..Len(SortedKeys(DOMAIN res)) |-> res[SortedKeys(DOMAIN res)[i]]])

\* the pool has joined: the file is written and fetch_year_data returns
WriteYearFile ==
    /\ pc = "Fetching"
    /\ pending = {}
    /\ files' = [files EXCEPT !["year"] = File(WrittenRows(results))]
    /\ pc' = "Validating"
    /\ UNCHANGED <<pending, results, completed_count, failed, is_valid, validated,
                   fetchRuns, repairRuns, getCandlesCalls, runs, startValid,
                   fileAtStart, secondary, retryVars, gapVars, rangeVars, restVars, moreVars, lastVars>>

\* lines 710-714: fetch_year_data raises (the file cannot be opened for
\* writing) and process_single_year returns False
FetchRaises ==
    /\ pc = "Fetching"
    /\ pending = {}
    /\ pc' = "Failed"
    /\ UNCHANGED <<files, pending, results, completed_count, failed, is_valid,
                   validated, fetchRuns, repairRuns, getCandlesCalls, runs,
                   startValid, fileAtStart, secondary, retryVars, gapVars, rangeVars, restVars, moreVars, lastVars>>

\* lines 716-720: Step 3, validate_data on the unit's file
Validate ==
    /\ pc = "Validating"
    /\ is_valid' = validate_data(files["year"], None, None)
    /\ validated' = validated + 1
    /\ pc' = IF is_valid' THEN "Complete" ELSE "Repairing"
    /\ UNCHANGED <<files, pending, results, completed_count, failed, fetchRuns,
                   repairRuns, getCandlesCalls, runs, startValid, fileAtStart, secondary,
                   retryVars, gapVars, rangeVars, restVars, moreVars, lastVars>>

\* an orchestrator that validates and repairs again after a failed repair
RepairTarget_Retry(success) == IF success THEN "Complete" ELSE "Validating"

\* lines 722-728: where process_single_year ends after the repair
RepairTarget(success) == IF success THEN "Complete" ELSE "Failed"

\* lines 720-728: Step 4, find_and_fetch_missing_data_integrated and the
\* return of process_single_year
Repair ==
    /\ pc = "Repairing"
    /\ \E mode \in SecondaryModes :
          LET r == find_and_fetch_missing_data_integrated(files, mode)
          IN /\ files' = r.files
             /\ is_valid' = IF r.validated THEN r.valid ELSE is_valid
             /\ validated' = IF r.validated THEN validated + 1 ELSE validated
             /\ pc' = RepairTarget(r.ok)
             /\ secondary' = mode
    /\ repairRuns' = repairRuns + 1
    /\ UNCHANGED <<pending, results, completed_count, failed, fetchRuns,
                   getCandlesCalls, runs, startValid, fileAtStart, retryVars,
                   gapVars, rangeVars, restVars, moreVars, lastVars>>

Next ==
    \/ Start
    \/ \E iid \in IntervalIds : FetchInterval(iid)
    \/ WriteYearFile
    \/ FetchRaises
    \/ Validate
    \/ Repair

Spec == Init /\ [][Next]_vars

(***************************************************************************)
(* Properties of process_single_year                                       *)
(***************************************************************************)
Terminal == {"Complete", "Failed"}

\* the minutes of the unit's declared span [start_unix, end_unix)
SpanGrid == Range(Grid(start_unix, end_unix - GRANULARITY))

\* the rows hold exactly one candle for each minute of the declared span
CoversSpan(rows) ==
    /\ \A t \in SpanGrid :
          Cardinality({i \in 1..Len(rows) : rows[i].unix_timestamp = t}) = 1
    /\ \A i \in 1..Len(rows) : rows[i].unix_timestamp \in SpanGrid

\* the timestamps covered by a list of ranges
Covered(ranges) ==
    UNION {Range(Grid(ranges[i][1], ranges[i][2])) : i \in 1..Len(ranges)}

\* C1: whenever process_single_year returns success, the unit's file holds
\* exactly one candle for every minute of the unit's declared span
C1_SuccessCoversSpan ==
    pc = "Complete" => CoversSpan(files["year"].rows)

\* C2: process_single_year returns success only when the last validate_data
\* call of the invocation returned true
C2_SuccessOnlyFromPassingValidation ==
    pc = "Complete" => is_valid

\* C3: an invocation that finds the unit's file present and valid performs no
\* fetch, leaves every file as it was and returns success, and so does every
\* invocation that follows it
C3_ValidFileIsSkipped ==
    /\ [](startValid =>
            /\ pc = "Complete"
            /\ files = fileAtStart
            /\ fetchRuns = 0
            /\ getCandlesCalls = 0
            /\ repairRuns = 0)
    /\ [][(runs' = runs + 1 /\ validate_data(files["year"], None, None)) =>
            (startValid' /\ pc' = "Complete" /\ files' = files)]_vars

\* the third invocation in a row found the file written by the first valid
C3_Witness ==
    /\ startValid
    /\ runs >= 3
    /\ pc = "Complete"
    /\ fileAtStart["year"].rows # <<>>

\* the order of the phases of one invocation
Rank(p) ==
    CASE p = "NotStarted" -> 0
      [] p = "Fetching" -> 1
      [] p = "Validating" -> 2
      [] p = "Repairing" -> 3
      [] OTHER -> 4

\* the number of steps an invocation can still take at most: one per
\* outstanding future, one to write the file, one per later phase
StepsLeft ==
    CASE pc = "NotStarted" -> Cardinality(IntervalIds) + 4
      [] pc = "Fetching" -> Cardinality(pending) + 3
      [] pc = "Validating" -> 2
      [] pc = "Repairing" -> 1
      [] OTHER -> 0

\* C4: one invocation ends Complete or Failed after a bounded number of
\* steps (every step lowers StepsLeft, which is 0 only in Complete and
\* Failed), enters the fetch phase at most once and the repair phase at most
\* once, and never goes back to an earlier phase; a Failed invocation stays
\* Failed
C4_OneInvocationTerminates ==
    /\ [](fetchRuns <= 1 /\ repairRuns <= 1 /\ StepsLeft >= 0)
    /\ [](StepsLeft = 0 <=> pc \in Terminal)
    /\ [][runs' = runs => (/\ Rank(pc') >= Rank(pc)
                           /\ StepsLeft' < StepsLeft
                           /\ pc \notin Terminal)]_vars

\* an invocation fetched, failed validation, repaired once and ended Failed
C4_Witness ==
    /\ pc = "Failed"
    /\ fetchRuns = 1
    /\ repairRuns = 1
    /\ validated = 1

\* C5: a repair of a file with interior gaps, during which the secondary
\* source answers every chunk in full, ends Complete with a file that passes
\* validation
C5_FullRepairCompletes ==
    [][(pc = "Repairing" /\ files["year"].rows # <<>> /\ secondary' = "full") =>
          (pc' = "Complete" /\ validate_data(files'["year"], None, None))]_vars

\* C8: every minute of a failed sub-window lies in a range reported by
\* find_missing_timestamps for the file fetch_year_data wrote
C8_FailedWindowsAreReported ==
    (pc = "Validating" /\ fetchRuns = 1) =>
        \A iid \in failed :
            Range(Grid(IntervalOf(iid)[1], IntervalOf(iid)[2] - GRANULARITY))
                \subseteq Covered(find_missing_timestamps(files["year"]))

(***************************************************************************)
(* The retry loop: get_candles (main.py), get_candles_binance              *)
(* (fetch_missing_data.py, main2.py), fetch_interval_data                  *)
(* (ultra_spammer.py)                                                      *)
(***************************************************************************)
Fetchers == {"get_candles", "get_candles_binance", "fetch_interval_data"}

\* what a request can end with: a 200 response with candles, a 200 response
\* with an empty body, a 429, another status, an exception
ResponseKinds == {"data", "empty", "429", "http_error", "exception"}

\* a retry guard that lets one retry too many through
MayRetry_OffByOne(rc) == rc <= MAX_RETRIES

\* a retry guard that gives up one retry early
MayRetry_GivesUpEarly(rc) == rc < MAX_RETRIES - 1

\* `if retry_count < MAX_RETRIES` of the three failure branches
MayRetry(rc) == rc < MAX_RETRIES

\* a backoff that doubles from twice RETRY_DELAY
retry_delay_DoubleStart(rc) == RETRY_DELAY * (2 ^ (rc + 1))

\* retry_delay = RETRY_DELAY * (2 ** retry_count)
retry_delay(rc) == RETRY_DELAY * (2 ^ rc)

\* the value returned for a 200 response with an empty body
EmptyResult(fn) == IF fn = "fetch_interval_data" THEN "empty_list" ELSE "None"

\* the value returned once the retries are exhausted
ExhaustedResult(fn) == IF fn = "fetch_interval_data" THEN "empty_list" ELSE "None"

\* a request made outside any try block: an exception is not caught
Handled_NoExcept(kind) == kind \in {"429", "http_error"}

\* the failures the function deals with itself: the `status_code == 429`
\* branch, the `else` branch of the status test, and `except Exception`
\* around the request and the reading of its response
Handled(kind) == kind \in {"429", "http_error", "exception"}

InitRetry == RetryIdle /\ PipeIdle /\ GapIdle /\ RangeIdle /\ RestIdle /\ MoreIdle /\ LastIdle

\* the caller calls the function, retry_count takes its default
Call(fn) ==
    /\ rc_pc = "idle"
    /\ rc_fn' = fn
    /\ rc_pc' = "request"
    /\ retry_count' = 0
    /\ UNCHANGED <<rc_requests, rc_sleeps, rc_responses, rc_result, rc_notified,
                   pipeVars, gapVars, rangeVars, restVars, moreVars, lastVars>>

\* one activation of the function: the request is issued and answered; the
\* function returns, or sleeps and calls itself with retry_count + 1; a
\* failure that no branch handles leaves the call as an exception
Respond(kind) ==
    /\ rc_pc = "request"
    /\ rc_requests' = rc_requests + 1
    /\ rc_responses' = Append(rc_responses, kind)
    /\ IF kind = "data"
       THEN /\ rc_pc' = "done"
            /\ rc_result' = "data"
            /\ UNCHANGED <<retry_count, rc_sleeps, rc_notified>>
       ELSE IF kind = "empty"
       THEN /\ rc_pc' = "done"
            /\ rc_result' = EmptyResult(rc_fn)
            /\ UNCHANGED <<retry_count, rc_sleeps, rc_notified>>
       ELSE IF ~Handled(kind)
       THEN /\ rc_pc' = "raised"
            /\ rc_result' = "exception"
            /\ UNCHANGED <<retry_count, rc_sleeps, rc_notified>>
       ELSE IF MayRetry(retry_count)
       THEN /\ rc_sleeps' = Append(rc_sleeps, retry_delay(retry_count))
            /\ retry_count' = retry_count + 1
            /\ UNCHANGED <<rc_pc, rc_result, rc_notified>>
       ELSE /\ rc_pc' = "done"
            /\ rc_result' = ExhaustedResult(rc_fn)
            /\ rc_notified' = IF rc_fn = "fetch_interval_data"
                              THEN rc_notified + 1 ELSE rc_notified
            /\ UNCHANGED <<retry_count, rc_sleeps>>
    /\ UNCHANGED <<rc_fn, pipeVars, gapVars, rangeVars, restVars, moreVars, lastVars>>

NextRetry ==
    \/ \E fn \in Fetchers : Call(fn)
    \/ \E kind \in ResponseKinds : Respond(kind)

SpecRetry == InitRetry /\ [][NextRetry]_vars

\* the provider answers every request and every sleep ends
FairSpecRetry == InitRetry /\ [][NextRetry]_vars /\ WF_vars(NextRetry)

(***************************************************************************)
(* find_missing_timestamps (main.py) on the files of a bounded set         *)
(***************************************************************************)
\* the timestamps a file can hold: the minutes 0 .. MaxTs and one timestamp
\* off the minute grid
GapUniverse == {k * 60 : k \in 0..MaxTs} \cup {90}

InitGap ==
    /\ gd_timestamps \in UNION {[1..n -> GapUniverse] : n \in 0..MaxLen}
    /\ gd_pc = "input"
    /\ gd_ranges = <<>>
    /\ PipeIdle /\ RetryIdle /\ RangeIdle /\ RestIdle /\ MoreIdle /\ LastIdle

FindMissing ==
    /\ gd_pc = "input"
    /\ gd_ranges' = MissingRangesOf(gd_timestamps)
    /\ gd_pc' = "done"
    /\ UNCHANGED <<gd_timestamps, pipeVars, retryVars, rangeVars, restVars, moreVars, lastVars>>

NextGap == FindMissing

SpecGap == InitGap /\ [][NextGap]_vars

(***************************************************************************)
(* fetch_missing_range (fetch_missing_data.py) on the ranges of a bounded  *)
(* set                                                                     *)
(***************************************************************************)
\* the bodies a 200 response of the secondary source can carry for a chunk
SecondaryBodies(chunk_start, chunk_end) ==
    {[i \in 1..Len(SortedKeys(S)) |-> SecondaryKline(SortedKeys(S)[i])] :
        S \in SUBSET Range(Grid(chunk_start, chunk_end))}

\* what one call of get_candles_binance ends with
SecondaryOutcomes(chunk_start, chunk_end) ==
    {[status |-> "exhausted", body |-> <<>>]} \cup
    {[status |-> "ok", body |-> b] : b \in SecondaryBodies(chunk_start, chunk_end)}

InitMissingRange ==
    /\ \E a \in 1..MaxRangeTs : \E b \in a..MaxRangeTs :
          /\ mr_range = <<a * 60, b * 60>>
          /\ mr_last = Some(PrimaryCandle((a - 1) * 60))
    /\ mr_outcomes = <<>>
    /\ mr_pc = "input"
    /\ mr_result = None
    /\ PipeIdle /\ RetryIdle /\ GapIdle /\ RestIdle /\ MoreIdle /\ LastIdle

FetchMissingRange ==
    /\ mr_pc = "input"
    /\ LET chunks == Chunks(mr_range[1], mr_range[2], MAX_CHUNK_SIZE)
       IN \E outcomes \in [1..Len(chunks) ->
                 UNION {SecondaryOutcomes(chunks[i][1], chunks[i][2]) :
                           i \in 1..Len(chunks)}] :
             /\ \A i \in 1..Len(chunks) :
                   outcomes[i] \in SecondaryOutcomes(chunks[i][1], chunks[i][2])
             /\ mr_outcomes' = outcomes
             /\ mr_result' = fmd_fetch_missing_range(mr_range[1], mr_range[2],
                                 [i \in 1..Len(chunks) |->
                                     get_candles_binance_return(outcomes[i])])
    /\ mr_pc' = "done"
    /\ UNCHANGED <<mr_range, mr_last, pipeVars, retryVars, gapVars, restVars, moreVars, lastVars>>

NextMissingRange == FetchMissingRange

SpecMissingRange == InitMissingRange /\ [][NextMissingRange]_vars

(***************************************************************************)
(* Properties of fetch_missing_range                                       *)
(***************************************************************************)
\* the candle the repair is said to synthesize at t: the prices of the last
\* known candle, volume 0
CarriedForward(t, last_candle) ==
    CsvRow(<<t, last_candle[2], last_candle[3], last_candle[4], last_candle[5], 0>>)

\* C6: when every chunk request of a missing range exhausts its retries,
\* fetch_missing_range still returns one candle for every timestamp of the
\* range, each with the prices of the last known candle and volume 0
C6_UnreachableSourceIsSynthesized ==
    (/\ mr_pc = "done"
     /\ \A i \in 1..Len(mr_outcomes) : mr_outcomes[i].status = "exhausted") =>
        /\ mr_result # None
        /\ Val(mr_result) =
              [i \in 1..Len(Grid(mr_range[1], mr_range[2])) |->
                  CarriedForward(Grid(mr_range[1], mr_range[2])[i], Val(mr_last))]

(***************************************************************************)
(* Properties of find_missing_timestamps                                   *)
(***************************************************************************)
\* the grid timestamps between the first and the last timestamp of the file
GapGrid ==
    LET sorted == SortInts(gd_timestamps)
    IN Range(Grid(sorted[1], sorted[Len(sorted)]))

\* the grid timestamps the file does not hold
GapAbsent == GapGrid \ Range(gd_timestamps)

\* C7: for a non-empty file the ranges returned by find_missing_timestamps
\* are the maximal runs of absent grid timestamps, in ascending order: each
\* range starts and ends on an absent grid timestamp with start <= end, the
\* grid timestamps next to it are not absent, a present grid timestamp lies
\* between two consecutive ranges, and together
\* they cover exactly the absent grid timestamps; for 0, 60, 180 the result
\* is [(120, 120)]
C7_RangesAreTheMaximalGaps ==
    (gd_pc = "done" /\ gd_timestamps # <<>>) =>
        /\ \A i \in 1..Len(gd_ranges) :
              /\ gd_ranges[i][1] <= gd_ranges[i][2]
              /\ gd_ranges[i][1] \in GapAbsent
              /\ gd_ranges[i][2] \in GapAbsent
              /\ (gd_ranges[i][1] - GRANULARITY) \notin GapAbsent
              /\ (gd_ranges[i][2] + GRANULARITY) \notin GapAbsent
        /\ \A i \in 1..(Len(gd_ranges) - 1) :
              \E t \in GapGrid \ GapAbsent :
                  gd_ranges[i][2] < t /\ t < gd_ranges[i + 1][1]
        /\ Covered(gd_ranges) = GapAbsent
        /\ (gd_timestamps = <<0, 60, 180>> => gd_ranges = <<<<120, 120>>>>)

\* an unsorted file with a gap of two minutes
C7_Witness ==
    /\ gd_pc = "done"
    /\ gd_timestamps = <<180, 0, 240>>
    /\ gd_ranges = <<<<60, 120>>>>

(***************************************************************************)
(* Properties of the retry loop                                            *)
(***************************************************************************)
Last(s) == s[Len(s)]

\* C9: for every sequence of responses a call of get_candles, of
\* get_candles_binance and of fetch_interval_data (ultra_spammer.py) returns,
\* after at most MAX_RETRIES + 1 requests; retry_count never decreases and
\* never exceeds MAX_RETRIES
C9_RetriesAreBounded ==
    /\ [](/\ retry_count <= MAX_RETRIES
          /\ rc_requests <= MAX_RETRIES + 1
          /\ rc_requests = Len(rc_responses)
          /\ Len(rc_sleeps) = retry_count
          /\ (rc_pc = "done" => rc_requests = retry_count + 1))
    /\ [][rc_pc = "request" => (retry_count' >= retry_count
                                /\ retry_count' <= retry_count + 1)]_vars
    /\ (rc_pc = "request") ~> (rc_pc = "done")

\* a call of get_candles that met the three kinds of failure and gave up
\* after MAX_RETRIES retries
C9_Witness ==
    /\ rc_fn = "get_candles"
    /\ rc_pc = "done"
    /\ retry_count = MAX_RETRIES
    /\ rc_requests = MAX_RETRIES + 1
    /\ {"429", "http_error", "exception"} \subseteq Range(rc_responses)

NoneFetchers == {"get_candles", "get_candles_binance"}

C11_ExhaustionReturnsNone ==
    rc_fn \in NoneFetchers =>
        /\ rc_pc \in {"idle", "request", "done"}
        /\ rc_result # "exception"
        /\ (rc_pc # "request" /\ rc_requests = MAX_RETRIES + 1
               /\ Last(rc_responses) \in {"429", "http_error", "exception"}) =>
              (rc_pc = "done" /\ rc_result = "None")

\* get_candles_binance returned None after an exception in every one of its
\* requests
C11_Witness ==
    /\ rc_fn = "get_candles_binance"
    /\ rc_pc = "done"
    /\ rc_result = "None"
    /\ rc_requests = MAX_RETRIES + 1
    /\ \A i \in 1..Len(rc_responses) : rc_responses[i] = "exception"

RECURSIVE Sum(_)
Sum(s) == IF s = <<>> THEN 0 ELSE s[1] + Sum(Tail(s))

\* C12: the sleep before retry k (k counted from 0) lasts RETRY_DELAY * 2^k
\* seconds whichever of the three failures caused it, so one call of
\* get_candles sleeps 2, 4, 8, 16, 32 seconds at most and never more than
\* 62 seconds in all
C12_BackoffDoubles ==
    /\ [](rc_fn = "get_candles" =>
            /\ \A k \in 0..(Len(rc_sleeps) - 1) :
                   rc_sleeps[k + 1] = RETRY_DELAY * 2 ^ k
            /\ rc_sleeps = SubSeq(<<2, 4, 8, 16, 32>>, 1, Len(rc_sleeps))
            /\ Sum(rc_sleeps) <= 62)
    /\ [][(/\ rc_fn = "get_candles"
           /\ rc_pc = "request"
           /\ rc_pc' = "request"
           /\ rc_requests' = rc_requests + 1) =>
              (/\ Last(rc_responses') \in {"429", "http_error", "exception"}
               /\ Len(rc_sleeps') = Len(rc_sleeps) + 1
               /\ Last(rc_sleeps') = RETRY_DELAY * 2 ^ retry_count)]_vars

\* get_candles slept five times, after failures of the three kinds
C12_Witness ==
    /\ rc_fn = "get_candles"
    /\ rc_sleeps = <<2, 4, 8, 16, 32>>
    /\ rc_responses = <<"429", "http_error", "exception", "429", "http_error">>

(***************************************************************************)
(* The parallel fetch phase: fetch_year_data (main.py), fetch_day_data     *)
(* (main2.py) and main (fetch_missing_data.py)                             *)
(***************************************************************************)
Programs == {"fetch_year_data", "fetch_day_data", "fmd_main"}

\* seconds of the day fetched by fetch_day_data (86400 in main2.py, scaled
\* down)
DaySeconds == 7
\* candles per Binance request of main2.py (1000 in main2.py:13, scaled down)
MAX_CANDLES_PER_REQUEST_1S == 2

STEP == 1
day_delta == STEP * MAX_CANDLES_PER_REQUEST_1S

RECURSIVE DayIntervalsFrom(_, _, _)
\* the interval loop of fetch_day_data
DayIntervalsFrom(current_start, day_end_unix, interval_id) ==
    IF ~(current_start < day_end_unix) THEN <<>>
    ELSE LET current_end == WindowEnd(current_start, day_delta, day_end_unix)
         IN <<<<current_start, current_end, interval_id>>>> \o
            DayIntervalsFrom(current_end, day_end_unix, interval_id + 1)

\* a 1s kline of the secondary source,
\* [open time in ms, open, high, low, close, volume, ...]
Kline1s(t) == <<t * 1000, 300 + t, 302 + t, 299 + t, 301 + t, 4>>

\* the conversion loop of main2.py's get_candles_binance:
\* (timestamp, open, high, low, close, volume)
Convert1s(candle) ==
    <<candle[1] \div 1000, candle[2], candle[3], candle[4], candle[5], candle[6]>>

\* the value main2.py's get_candles_binance returns for the response that
\* ends the call
main2_get_candles_binance_return(outcome) ==
    IF outcome.status = "ok" /\ outcome.body # <<>>
    THEN Some([i \in 1..Len(outcome.body) |-> Convert1s(outcome.body[i])])
    ELSE None

\* the csv row main2.py's fetch_interval_data builds from a converted candle
Row1s(candle) ==
    [timestamp |-> Iso(candle[1]), open |-> candle[2], close |-> candle[5],
     volume |-> candle[6], unix_timestamp |-> candle[1], high |-> candle[3],
     low |-> candle[4]]

\* fetch_interval_data of main2.py: a bare None when nothing came back,
\* <<csv_rows, start_unix, end_unix>> otherwise
main2_fetch_interval_data(start, end, outcome) ==
    LET raw_data == main2_get_candles_binance_return(outcome)
    IN IF raw_data = None THEN None
       ELSE <<Some([i \in 1..Len(Val(raw_data)) |-> Row1s(Val(raw_data)[i])]),
              start, end>>

\* how a task's request ends: "fail" exhausts the retries, "full" brings a
\* candle for every timestamp asked for, "sparse" brings a few
OutcomeModes == {"fail", "full", "sparse"}

\* the answer of the primary source to get_candles(start, end): the window
\* [start, end] with both ends, newest candle first
YearOutcome(mode, start, end) ==
    IF mode = "fail" THEN [status |-> "exhausted", body |-> <<>>]
    ELSE IF mode = "full"
    THEN [status |-> "ok",
          body |-> [i \in 1..Len(Grid(start, end)) |->
                       PrimaryCandle(Descending(Range(Grid(start, end)))[i])]]
    ELSE [status |-> "ok", body |-> <<PrimaryCandle(start)>>]

\* the answer of the secondary source to main2.py's request for
\* [start, end]: at most `limit` klines, the one opening at endTime included
\* when the limit leaves room for it
DayOutcome(mode, start, end) ==
    IF mode = "fail" THEN [status |-> "exhausted", body |-> <<>>]
    ELSE IF mode = "full"
    THEN [status |-> "ok",
          body |-> [i \in 1..((end - start) \div STEP) |->
                       Kline1s(start + (i - 1) * STEP)]]
    ELSE [status |-> "ok", body |-> <<Kline1s(start), Kline1s(end)>>]

\* what fetch_missing_range of fetch_missing_data.py returns for a range:
\* <<csv_rows or None, range_info>>
fetch_missing_range_return(range_info, mode) ==
    LET chunks == Chunks(range_info[1], range_info[2], MAX_CHUNK_SIZE)
        source == IF mode = "fail" THEN "unreachable"
                  ELSE IF mode = "full" THEN "full" ELSE "empty"
    IN <<fmd_fetch_missing_range(range_info[1], range_info[2],
             [i \in 1..Len(chunks) |->
                 get_candles_binance_return(
                     SecondaryOutcome(source, chunks[i][1], chunks[i][2]))]),
         range_info>>

\* the value the future of a task holds
TaskReturn(prog, task, mode) ==
    IF prog = "fetch_year_data"
    THEN fetch_interval_data(task[1], task[2], YearOutcome(mode, task[1], task[2]))
    ELSE IF prog = "fetch_day_data"
    THEN main2_fetch_interval_data(task[1], task[2],
                                   DayOutcome(mode, task[1], task[2]))
    ELSE fetch_missing_range_return(task, mode)

StartsAndEnds(ivs) == [i \in 1..Len(ivs) |-> <<ivs[i][1], ivs[i][2]>>]

\* the task lists a program can submit, each with the span it covers: the
\* intervals of the year, the intervals of a day of 0..DaySeconds seconds,
\* the ranges of a ranges file
Submissions(prog) ==
    IF prog = "fetch_year_data"
    THEN {[span |-> <<start_unix, end_unix>>, tasks |-> StartsAndEnds(intervals)]}
    ELSE IF prog = "fetch_day_data"
    THEN {[span |-> <<0, e>>, tasks |-> StartsAndEnds(DayIntervalsFrom(0, e, 0))] :
             e \in 0..DaySeconds}
    ELSE {[span |-> <<60, MaxRangeTs * 60>>,
           tasks |-> group_consecutive_timestamps(SortedKeys(S))] :
             S \in (SUBSET {k * 60 : k \in 1..MaxRangeTs}) \ {{}}}

\* the pool has been filled: every task is submitted and will end as drawn
InitParallel ==
    /\ \E prog \in Programs : \E sub \in Submissions(prog) :
       \E modes \in [1..Len(sub.tasks) -> OutcomeModes] :
          /\ pp_prog = prog
          /\ pp_span = sub.span
          /\ pp_tasks = sub.tasks
          /\ pp_outcomes = [i \in 1..Len(sub.tasks) |->
                               TaskReturn(prog, sub.tasks[i], modes[i])]
          /\ pp_pending = 1..Len(sub.tasks)
    /\ pp_order = <<>>
    /\ pp_results = <<>>
    /\ pp_writes = <<>>
    /\ pp_completed_count = 0
    /\ pp_all_missing_data = <<>>
    /\ pp_successful_ranges = 0
    /\ pp_pc = "running"
    /\ pp_file = NoFile
    /\ PipeIdle /\ RetryIdle /\ GapIdle /\ RangeIdle /\ MergeIdle /\ ValIdle
    /\ MoreIdle /\ LastIdle

\* a loop that an exception leaves: the futures still pending are never read
AfterRaise_Abort(pool, i) == {}

\* the except clause inside the as_completed loop: the loop goes on with the
\* next future
AfterRaise(pool, i) == pool \ {i}

\* one iteration of the as_completed loop: the future of task i is read
Complete(i) ==
    /\ pp_pc = "running"
    /\ i \in pp_pending
    /\ pp_order' = Append(pp_order, i)
    /\ LET r == pp_outcomes[i]
       IN IF pp_prog = "fmd_main"
          THEN /\ pp_all_missing_data' =
                      IF r[1] # None THEN pp_all_missing_data \o Val(r[1])
                      ELSE pp_all_missing_data
               /\ pp_successful_ranges' =
                      IF r[1] # None THEN pp_successful_ranges + 1
                      ELSE pp_successful_ranges
               /\ pp_pending' = pp_pending \ {i}
               /\ UNCHANGED <<pp_results, pp_writes, pp_completed_count>>
          ELSE IF Len(r) # 3
          \* `csv_rows, start_ts, end_ts = future.result()` raises
          THEN /\ pp_completed_count' = pp_completed_count + 1
               /\ pp_pending' = AfterRaise(pp_pending, i)
               /\ UNCHANGED <<pp_results, pp_writes, pp_all_missing_data,
                              pp_successful_ranges>>
          ELSE /\ pp_results' = IF r[1] # None
                                THEN (r[2] :> Val(r[1])) @@ pp_results
                                ELSE pp_results
               /\ pp_writes' =
                      IF r[1] # None
                      THEN (r[2] :> (IF r[2] \in DOMAIN pp_writes
                                     THEN pp_writes[r[2]] + 1 ELSE 1)) @@ pp_writes
                      ELSE pp_writes
               /\ pp_completed_count' = pp_completed_count + 1
               /\ pp_pending' = pp_pending \ {i}
               /\ UNCHANGED <<pp_all_missing_data, pp_successful_ranges>>
    /\ UNCHANGED <<pp_prog, pp_span, pp_tasks, pp_outcomes, pp_pc, pp_file,
                   pipeVars, retryVars, gapVars, rangeVars, mergeVars, valVars, moreVars, lastVars>>

\* the pool has joined: the file is written; fetch_missing_data.py leaves
\* with sys.exit(1) when nothing was retrieved
Join ==
    /\ pp_pc = "running"
    /\ pp_pending = {}
    /\ IF pp_prog = "fmd_main"
       THEN IF pp_all_missing_data = <<>>
            THEN pp_pc' = "exited" /\ pp_file' = pp_file
            ELSE /\ pp_file' = File(SortRows(pp_all_missing_data))
                 /\ pp_pc' = "written"
       ELSE /\ pp_file' = File(WrittenRows(pp_results))
            /\ pp_pc' = "written"
    /\ UNCHANGED <<pp_prog, pp_span, pp_tasks, pp_outcomes, pp_pending, pp_order,
                   pp_results, pp_writes, pp_completed_count,
                   pp_all_missing_data, pp_successful_ranges,
                   pipeVars, retryVars, gapVars, rangeVars, mergeVars, valVars, moreVars, lastVars>>

NextParallel ==
    \/ \E i \in 1..Len(pp_tasks) : Complete(i)
    \/ Join

SpecParallel == InitParallel /\ [][NextParallel]_vars

(***************************************************************************)
(* Properties of the parallel fetch phase                                  *)
(***************************************************************************)
\* the task handed rows to the loop
Succeeded(i) ==
    IF pp_outcomes[i] = None THEN FALSE ELSE pp_outcomes[i][1] # None

TaskRows(i) == Val(pp_outcomes[i][1])

\* sub is a block of consecutive elements of s
OccursIn(sub, s) ==
    \E k \in 0..(Len(s) - Len(sub)) : SubSeq(s, k + 1, k + Len(sub)) = sub

\* C13: in fetch_year_data and fetch_day_data a task that failed, by a None
\* in its result or by an exception raised when its result is read, stops
\* no other task: every future is read and counted, and after the join
\* completed_count is the number of sub-windows, the rows of every task that
\* succeeded are in the file, and a failed task has no entry in results and
\* no row in the file
C13_FailureIsolated ==
    pp_prog \in {"fetch_year_data", "fetch_day_data"} =>
        /\ pp_completed_count = Len(pp_order)
        /\ pp_pending = (1..Len(pp_tasks)) \ Range(pp_order)
        /\ pp_pc = "written" =>
              /\ pp_completed_count = Len(pp_tasks)
              /\ \A i \in 1..Len(pp_tasks) :
                    IF Succeeded(i)
                    THEN /\ pp_tasks[i][1] \in DOMAIN pp_results
                         /\ pp_results[pp_tasks[i][1]] = TaskRows(i)
                         /\ OccursIn(TaskRows(i), pp_file.rows)
                    ELSE pp_tasks[i][1] \notin DOMAIN pp_results
              /\ Len(pp_file.rows) =
                    Sum([i \in 1..Len(pp_tasks) |->
                            IF Succeeded(i) THEN Len(TaskRows(i)) ELSE 0])

\* fetch_day_data wrote its file after the first future it read had raised
\* and the second had brought rows
C13_Witness ==
    /\ pp_prog = "fetch_day_data"
    /\ pp_pc = "written"
    /\ Len(pp_order) >= 2
    /\ pp_outcomes[pp_order[1]] = None
    /\ Succeeded(pp_order[2])
    /\ pp_file.rows # <<>>

\* the rows of the tasks that succeeded, in the order of submission
ExpectedRows ==
    Flatten([i \in 1..Len(pp_tasks) |->
                IF Succeeded(i) THEN TaskRows(i) ELSE <<>>])

\* C14: the file written by fetch_year_data, and the missing-data file
\* written by main of fetch_missing_data.py over disjoint ranges, holds the
\* rows of the tasks that succeeded in ascending order of task start and of
\* timestamp, whatever the order in which the tasks completed
C14_OutputIndependentOfCompletionOrder ==
    (pp_prog \in {"fetch_year_data", "fmd_main"} /\ pp_pc = "written") =>
        /\ pp_file.rows = ExpectedRows
        /\ \A i \in 1..(Len(pp_file.rows) - 1) :
              pp_file.rows[i].unix_timestamp < pp_file.rows[i + 1].unix_timestamp

\* fetch_year_data wrote its file after the tasks had completed last first
C14_Witness ==
    /\ pp_prog = "fetch_year_data"
    /\ pp_pc = "written"
    /\ Len(pp_order) >= 2
    /\ \A i \in 1..(Len(pp_order) - 1) : pp_order[i] > pp_order[i + 1]
    /\ \A i \in 1..Len(pp_tasks) : Succeeded(i)

\* the period and the longest window of a program
PeriodOf(prog) == IF prog = "fetch_year_data" THEN GRANULARITY ELSE STEP
LongestOf(prog) ==
    IF prog = "fetch_year_data" THEN MAX_CANDLES_PER_REQUEST * GRANULARITY
    ELSE MAX_CANDLES_PER_REQUEST_1S * STEP

\* C15: the sub-windows of fetch_year_data (and of fetch_day_data, which
\* runs the same loop) partition the span: the first starts at the start of
\* the span, each next one starts where the previous ends, the last ends at
\* the end of the span, each is non-empty and at most
\* MAX_CANDLES_PER_REQUEST periods long, every grid timestamp of the span
\* lies in exactly one of them, their starts are pairwise distinct and no
\* key of results is assigned more than once
C15_WindowsPartitionSpan ==
    pp_prog \in {"fetch_year_data", "fetch_day_data"} =>
        LET n == Len(pp_tasks)
        IN /\ pp_span[1] < pp_span[2] =>
                 (n >= 1 /\ pp_tasks[1][1] = pp_span[1] /\ pp_tasks[n][2] = pp_span[2])
           /\ \A i \in 1..(n - 1) : pp_tasks[i + 1][1] = pp_tasks[i][2]
           /\ \A i \in 1..n :
                 /\ pp_tasks[i][1] < pp_tasks[i][2]
                 /\ pp_tasks[i][2] - pp_tasks[i][1] <= LongestOf(pp_prog)
           /\ \A t \in pp_span[1]..(pp_span[2] - 1) :
                 (t - pp_span[1]) % PeriodOf(pp_prog) = 0 =>
                     Cardinality({i \in 1..n : pp_tasks[i][1] <= t
                                               /\ t < pp_tasks[i][2]}) = 1
           /\ \A i \in 1..n : \A j \in 1..n :
                 i # j => pp_tasks[i][1] # pp_tasks[j][1]
           /\ \A k \in DOMAIN pp_writes : pp_writes[k] = 1

\* every sub-window of the year succeeded and wrote its own key
C15_Witness ==
    /\ pp_prog = "fetch_year_data"
    /\ pp_pc = "written"
    /\ Len(pp_tasks) >= 2
    /\ pp_tasks[Len(pp_tasks)][2] = end_unix
    /\ DOMAIN pp_writes = {pp_tasks[i][1] : i \in 1..Len(pp_tasks)}

(***************************************************************************)
(* merge_csv_files on the files of a bounded set                           *)
(***************************************************************************)
\* rows of the original file
MaxMergeLen == 3
\* timestamps the rows of the two files are drawn from
MaxMergeTs == 3

MergeTs == {100 + 60 * k : k \in 0..(MaxMergeTs - 1)}
MergePrices == {50, 51}

\* a csv row with timestamp t and the same price in its four price columns
MergeRow(t, price) == CsvRow(<<t, price, price, price, price, 1>>)

MergeRows == {MergeRow(t, price) : t \in MergeTs, price \in MergePrices}

\* an original file: any rows in any order, or no file
OriginalFiles ==
    {NoFile} \cup
    {File(rows) : rows \in UNION {[1..n -> MergeRows] : n \in 0..MaxMergeLen}}

\* a missing-data file as fetch_missing_data.py writes it, sorted and with
\* one row for a timestamp at most, or no file
MissingFiles ==
    {NoFile} \cup
    {File([i \in 1..Len(SortedKeys(T)) |-> MergeRow(SortedKeys(T)[i], price[SortedKeys(T)[i]])]) :
        T \in SUBSET MergeTs, price \in [MergeTs -> MergePrices]}

InitMerge ==
    /\ mg_original \in OriginalFiles
    /\ mg_missing \in MissingFiles
    /\ mg_pc = "input"
    /\ mg_ok = FALSE
    /\ mg_output = NoFile
    /\ mg_duplicates_removed = 0
    /\ PipeIdle /\ RetryIdle /\ GapIdle /\ RangeIdle /\ ParIdle /\ ValIdle
    /\ MoreIdle /\ LastIdle

\* merge_csv_files(original_file, missing_data_file, output_file)
Merge ==
    /\ mg_pc = "input"
    /\ LET m == merge_csv_files(mg_original, mg_missing)
       IN /\ mg_ok' = m.ok
          /\ mg_output' = IF m.ok THEN File(m.rows) ELSE mg_output
          /\ mg_duplicates_removed' = m.duplicates_removed
    /\ mg_pc' = "done"
    /\ UNCHANGED <<mg_original, mg_missing,
                   pipeVars, retryVars, gapVars, rangeVars, parVars, valVars, moreVars, lastVars>>

\* merge_csv_files(output_file, missing_data_file, output_file): the merged
\* file is merged with the missing-data file once more
MergeAgain ==
    /\ mg_pc = "done"
    /\ mg_ok
    /\ LET m == merge_csv_files(mg_output, mg_missing)
       IN /\ mg_ok' = m.ok
          /\ mg_output' = IF m.ok THEN File(m.rows) ELSE mg_output
          /\ mg_duplicates_removed' = m.duplicates_removed
    /\ mg_pc' = "again"
    /\ UNCHANGED <<mg_original, mg_missing,
                   pipeVars, retryVars, gapVars, rangeVars, parVars, valVars, moreVars, lastVars>>

NextMerge == Merge \/ MergeAgain

SpecMerge == InitMerge /\ [][NextMerge]_vars

(***************************************************************************)
(* Properties of merge_csv_files                                           *)
(***************************************************************************)
\* the rows of a file, none when the file does not exist
RowsOf(file) == IF file.exists THEN file.rows ELSE <<>>

\* the first row of rows with timestamp t
FirstAt(rows, t) ==
    rows[CHOOSE i \in 1..Len(rows) :
            /\ rows[i].unix_timestamp = t
            /\ \A j \in 1..(i - 1) : rows[j].unix_timestamp # t]

\* C16: for every timestamp present in both input files the merged file
\* holds one row, the (first) row of the original file, and
\* duplicates_removed is the number of rows read minus the number of rows
\* written; for an original file with price 50 at t = 100 and a missing-data
\* file with price 51 at t = 100 the output has price 50 at t = 100 and
\* duplicates_removed = 1
C16_OriginalRowWins ==
    (mg_pc = "done" /\ mg_ok) =>
        /\ \A t \in Range(Timestamps(RowsOf(mg_original)))
                      \cap Range(Timestamps(RowsOf(mg_missing))) :
              /\ Cardinality({i \in 1..Len(mg_output.rows) :
                                 mg_output.rows[i].unix_timestamp = t}) = 1
              /\ FirstAt(mg_output.rows, t) = FirstAt(mg_original.rows, t)
        /\ mg_duplicates_removed =
              Len(RowsOf(mg_original)) + Len(RowsOf(mg_missing))
                  - Len(mg_output.rows)
        /\ (/\ mg_original = File(<<MergeRow(100, 50)>>)
            /\ mg_missing = File(<<MergeRow(100, 51)>>)) =>
              (/\ mg_output = File(<<MergeRow(100, 50)>>)
               /\ mg_duplicates_removed = 1)

\* the two files of the example have been merged
C16_Witness ==
    /\ mg_pc = "done"
    /\ mg_original = File(<<MergeRow(100, 50)>>)
    /\ mg_missing = File(<<MergeRow(100, 51)>>)
    /\ mg_output.rows[1].close = 50
    /\ mg_duplicates_removed = 1

\* rows are sorted by timestamp and no timestamp occurs twice
SortedUnique(rows) ==
    \A i \in 1..(Len(rows) - 1) :
        rows[i].unix_timestamp < rows[i + 1].unix_timestamp

\* C17: when both inputs of the merge are the same file S, sorted and with
\* unique timestamps, the output is S, row for row, and as many rows were
\* dropped as S has; merging the output with S once more gives S again
C17_MergeWithItself ==
    (/\ mg_pc \in {"done", "again"}
     /\ mg_original.exists
     /\ mg_missing = mg_original
     /\ SortedUnique(mg_original.rows)) =>
        /\ mg_ok
        /\ mg_output = mg_original
        /\ Len(mg_output.rows) = Len(mg_original.rows)
        /\ mg_duplicates_removed = Len(mg_original.rows)

\* a file of MaxMergeTs rows has been merged with itself twice
C17_Witness ==
    /\ mg_pc = "again"
    /\ mg_missing = mg_original
    /\ Len(mg_original.rows) = MaxMergeTs
    /\ SortedUnique(mg_original.rows)
    /\ mg_output = mg_original

(***************************************************************************)
(* validate_bitcoin_data (validate_data.py)                                *)
(***************************************************************************)
RECURSIVE SkipMissing(_, _, _)
\* while expected_timestamp < timestamp: append it, add 60; the result is
\* <<expected_timestamp, missing_timestamps>> after the loop
SkipMissing(expected_timestamp, timestamp, missing_timestamps) ==
    IF ~(expected_timestamp < timestamp)
    THEN <<expected_timestamp, missing_timestamps>>
    ELSE SkipMissing(expected_timestamp + 60, timestamp,
                     Append(missing_timestamps, expected_timestamp))

RECURSIVE BitcoinLoop(_, _, _, _, _, _)
\* the for loop over the sorted timestamps
BitcoinLoop(timestamps, i, expected_timestamp, prev_timestamp, missing_timestamps, duplicate_timestamps) ==
    IF i > Len(timestamps)
    THEN [missing |-> missing_timestamps, duplicates |-> duplicate_timestamps]
    ELSE LET timestamp == timestamps[i]
             skipped == SkipMissing(expected_timestamp, timestamp,
                                    missing_timestamps)
         IN BitcoinLoop(timestamps, i + 1,
                        IF skipped[1] = timestamp THEN skipped[1] + 60
                        ELSE skipped[1],
                        Some(timestamp),
                        skipped[2],
                        IF prev_timestamp = Some(timestamp)
                        THEN Append(duplicate_timestamps, timestamp)
                        ELSE duplicate_timestamps)

\* [valid, missing, duplicates]: the value returned and the two lists
validate_bitcoin_data(file) ==
    IF ~file.exists \/ Timestamps(file.rows) = <<>>
    THEN [valid |-> FALSE, missing |-> <<>>, duplicates |-> <<>>]
    ELSE LET timestamps == SortInts(Timestamps(file.rows))
             r == BitcoinLoop(timestamps, 1, timestamps[1], None, <<>>, <<>>)
         IN [valid |-> r.missing = <<>> /\ r.duplicates = <<>>,
             missing |-> r.missing, duplicates |-> r.duplicates]

(***************************************************************************)
(* The two validators on the files of a bounded set                        *)
(***************************************************************************)
\* the file whose unix_timestamp column is column
FileOf(column) ==
    File(CsvRows([i \in 1..Len(column) |-> PrimaryCandle(column[i])]))

OptionalTs == {None} \cup {Some(k * 60) : k \in 0..MaxTs}

\* the expected_start and expected_end a caller can pass
ExpectedBounds ==
    {b \in OptionalTs \X OptionalTs :
        (b[1] # None /\ b[2] # None) => Val(b[1]) <= Val(b[2])}

InitValidate ==
    /\ vd_timestamps \in UNION {[1..n -> GapUniverse] : n \in 0..MaxLen}
    /\ vd_expected \in ExpectedBounds
    /\ vd_pc = "input"
    /\ vd_valid = FALSE
    /\ vd_missing = <<>>
    /\ vb_pc = "input"
    /\ vb_valid = FALSE
    /\ vb_missing = <<>>
    /\ vb_duplicates = <<>>
    /\ PipeIdle /\ RetryIdle /\ GapIdle /\ RangeIdle /\ ParIdle /\ MergeIdle
    /\ MoreIdle /\ LastIdle

\* validate_data(filename, expected_start, expected_end) of main.py
ValidateData ==
    /\ vd_pc = "input"
    /\ vd_valid' = validate_data(FileOf(vd_timestamps), vd_expected[1],
                                 vd_expected[2])
    /\ vd_missing' = IF vd_timestamps = <<>> THEN <<>>
                     ELSE validate_missing(FileOf(vd_timestamps).rows,
                                           vd_expected[1], vd_expected[2])
    /\ vd_pc' = "done"
    /\ UNCHANGED <<vd_timestamps, vd_expected, vb_pc, vb_valid, vb_missing,
                   vb_duplicates,
                   pipeVars, retryVars, gapVars, rangeVars, parVars, mergeVars, moreVars, lastVars>>

\* validate_bitcoin_data(filename) of validate_data.py
ValidateBitcoinData ==
    /\ vb_pc = "input"
    /\ LET r == validate_bitcoin_data(FileOf(vd_timestamps))
       IN /\ vb_valid' = r.valid
          /\ vb_missing' = r.missing
          /\ vb_duplicates' = r.duplicates
    /\ vb_pc' = "done"
    /\ UNCHANGED <<vd_timestamps, vd_expected, vd_pc, vd_valid, vd_missing,
                   pipeVars, retryVars, gapVars, rangeVars, parVars, mergeVars, moreVars, lastVars>>

NextValidate == ValidateData \/ ValidateBitcoinData

SpecValidate == InitValidate /\ [][NextValidate]_vars

(***************************************************************************)
(* Properties of the validators                                            *)
(***************************************************************************)
\* both bounds were passed and, of the timestamps expected between them,
\* the file lacks the first and no other
LacksOnlyFirst ==
    /\ vd_expected[1] # None
    /\ vd_expected[2] # None
    /\ Val(vd_expected[1]) \notin Range(vd_timestamps)
    /\ \A t \in Range(Grid(Val(vd_expected[1]) + 60, Val(vd_expected[2]))) :
          t \in Range(vd_timestamps)

\* C18 as stated: validate_data with both bounds fails every file that lacks
\* only the first expected timestamp, and its missing_timestamps is that one
\* timestamp
C18_LackingFirstIsReported ==
    (vd_pc = "done" /\ LacksOnlyFirst) =>
        (~vd_valid /\ vd_missing = <<Val(vd_expected[1])>>)

\* C18 amended: validate_data with both bounds fails every file that lacks
\* only the first expected timestamp; when the file has at least one row its
\* missing_timestamps is that one timestamp, and for a file without rows it
\* returns before any list is computed
C18_LackingFirstOfNonEmptyIsReported ==
    (vd_pc = "done" /\ LacksOnlyFirst) =>
        /\ ~vd_valid
        /\ vd_timestamps # <<>> => vd_missing = <<Val(vd_expected[1])>>
        /\ vd_timestamps = <<>> =>
              (vd_missing = <<>> /\ vd_expected[1] = vd_expected[2])

\* a file with the minutes 60..180 checked against the span 0..180
C18_Witness ==
    /\ vd_pc = "done"
    /\ vd_expected = <<Some(0), Some(180)>>
    /\ vd_timestamps = <<60, 120, 180>>
    /\ ~vd_valid
    /\ vd_missing = <<0>>

\* the timestamps validate_data walks over
ExpectedGrid ==
    IF vd_timestamps = <<>> THEN <<>>
    ELSE LET timestamps == SortInts(vd_timestamps)
         IN Grid(IF vd_expected[1] = None THEN timestamps[1]
                 ELSE Val(vd_expected[1]),
                 IF vd_expected[2] = None THEN timestamps[Len(timestamps)]
                 ELSE Val(vd_expected[2]))

\* C19: validate_data returns true only if every expected timestamp has
\* exactly one row and no timestamp of the file occurs more than once
C19_DuplicatesFailValidation ==
    (vd_pc = "done" /\ vd_valid) =>
        /\ \A t \in Range(ExpectedGrid) :
              Cardinality({i \in 1..Len(vd_timestamps) : vd_timestamps[i] = t}) = 1
        /\ \A i \in 1..Len(vd_timestamps) : \A j \in 1..Len(vd_timestamps) :
              i # j => vd_timestamps[i] # vd_timestamps[j]

\* C20: when validate_bitcoin_data returns true, every two consecutive
\* entries of the sorted timestamps differ by exactly 60 seconds
C20_ValidatedSeriesIsContinuous ==
    (vb_pc = "done" /\ vb_valid) =>
        LET timestamps == SortInts(vd_timestamps)
        IN \A i \in 1..(Len(timestamps) - 1) :
              timestamps[i + 1] - timestamps[i] = 60

(***************************************************************************)
(* fill_missing_candles called on an arbitrary response                    *)
(***************************************************************************)
\* longest response handed to fill_missing_candles
MaxFillLen == 3
\* the windows end at most MaxFillEnd periods after timestamp 0
MaxFillEnd == 3

\* a candle of the source: [time, low, high, open, close, volume]; k tells
\* two candles of the same minute apart
FillCandle(t, k) == <<t, 99 + k, 102 + k, 100 + k, 101 + k, 5>>

\* candles a response may hold: on the grid, before the window, between two
\* grid timestamps, and two different candles for the minutes 0 and 60
FillCandles ==
    {FillCandle(t, 0) : t \in {0 - 60, 0, 30, 60, 120}}
        \cup {FillCandle(t, 10) : t \in {0, 60}}

FillResponses ==
    UNION {[1..n -> FillCandles] : n \in 0..MaxFillLen}

FillWindows ==
    {<<s, k * 60>> : s \in {0, 60}, k \in 0..MaxFillEnd}

InitFill ==
    /\ fl_candles \in FillResponses
    /\ fl_window \in FillWindows
    /\ fl_pc = "input"
    /\ fl_filled = <<>>
    /\ fl_fmd_pc = "input"
    /\ fl_fmd_filled = <<>>
    /\ PipeIdle /\ RetryIdle /\ GapIdle /\ RangeIdle /\ RestIdle /\ LastIdle
    /\ DatasetIdle /\ DbIdle /\ CsvIdle

\* main.py: filled_candles = fill_missing_candles(candles, start, end)
Fill ==
    /\ fl_pc = "input"
    /\ fl_filled' = fill_missing_candles(fl_candles, fl_window[1], fl_window[2])
    /\ fl_pc' = "done"
    /\ UNCHANGED <<fl_candles, fl_window, fl_fmd_pc, fl_fmd_filled, pipeVars,
                   retryVars, gapVars, rangeVars, restVars, dsVars, dbVars,
                   csvVars, lastVars>>

\* fetch_missing_data.py: filled_data = fill_missing_candles(raw_data,
\* chunk_start, chunk_end)
FillFmd ==
    /\ fl_fmd_pc = "input"
    /\ fl_fmd_filled' = fmd_fill_missing_candles(fl_candles, fl_window[1],
                                                 fl_window[2])
    /\ fl_fmd_pc' = "done"
    /\ UNCHANGED <<fl_candles, fl_window, fl_pc, fl_filled, pipeVars,
                   retryVars, gapVars, rangeVars, restVars, dsVars, dbVars,
                   csvVars, lastVars>>

NextFill == Fill \/ FillFmd

SpecFill == InitFill /\ [][NextFill]_vars

(***************************************************************************)
(* Properties of fill_missing_candles                                      *)
(***************************************************************************)
\* the entry of the output was taken from the response (the candles of the
\* response have a positive volume, the synthesized ones volume 0)
IsReal(candle) == candle[6] # 0

\* position of the last real candle before position i of the output, 0 if none
LastRealBefore(filled, i) ==
    IF \E j \in 1..(i - 1) : IsReal(filled[j])
    THEN CHOOSE j \in 1..(i - 1) :
            IsReal(filled[j]) /\ \A k \in (j + 1)..(i - 1) : ~IsReal(filled[k])
    ELSE 0

\* every synthesized entry that follows a real one is flat at the close of
\* the last real one and has volume 0
FlatAfterReal(filled) ==
    \A i \in 1..Len(filled) :
        (~IsReal(filled[i]) /\ LastRealBefore(filled, i) # 0) =>
            LET close == filled[LastRealBefore(filled, i)][5]
            IN /\ filled[i][2] = close
               /\ filled[i][3] = close
               /\ filled[i][4] = close
               /\ filled[i][5] = close
               /\ filled[i][6] = 0

\* C21: every candle synthesized by fill_missing_candles after a real candle
\* has open = high = low = close = the close of the last real candle before
\* it, and volume 0
C21_SynthesizedIsFlatAtLastClose ==
    /\ fl_pc = "done" => FlatAfterReal(fl_filled)
    /\ fl_fmd_pc = "done" => FlatAfterReal(fl_fmd_filled)

\* the grid timestamps of the window, the end excluded or included
FillGrid(window, inclusive) ==
    LET n == IF inclusive
             THEN (IF window[2] >= window[1]
                   THEN (window[2] - window[1]) \div 60 + 1 ELSE 0)
             ELSE (IF window[2] > window[1]
                   THEN (window[2] - window[1] + 59) \div 60 ELSE 0)
    IN [i \in 1..n |-> window[1] + (i - 1) * 60]

\* at every grid timestamp the response holds a candle for, the output holds
\* one of the response's candles of that timestamp
SourceKept(candles, filled, grid) ==
    \A i \in 1..Len(grid) :
        (\E j \in 1..Len(candles) : candles[j][1] = grid[i]) =>
            /\ i <= Len(filled)
            /\ \E j \in 1..Len(candles) :
                  candles[j][1] = grid[i] /\ filled[i] = candles[j]

\* C27: every source candle whose timestamp is a grid timestamp of the window
\* appears unchanged in the output at that timestamp, whatever else the
\* response contains
C27_SourceCandlesAreKept ==
    /\ fl_pc = "done" =>
          SourceKept(fl_candles, fl_filled, FillGrid(fl_window, FALSE))
    /\ fl_fmd_pc = "done" =>
          SourceKept(fl_candles, fl_fmd_filled, FillGrid(fl_window, TRUE))

\* the timestamps of a list of candles
Times(filled) == [i \in 1..Len(filled) |-> filled[i][1]]

\* C28: for every input list the output of fill_missing_candles has exactly
\* one entry per grid timestamp of its window, in ascending order one period
\* apart; the end is excluded in main.py and included in
\* fetch_missing_data.py
C28_OneEntryPerGridTimestamp ==
    /\ fl_pc = "done" => Times(fl_filled) = FillGrid(fl_window, FALSE)
    /\ fl_fmd_pc = "done" => Times(fl_fmd_filled) = FillGrid(fl_window, TRUE)

\* a response with a repeated minute and a candle off the grid, window 0..120
C28_Witness ==
    /\ fl_pc = "done"
    /\ fl_fmd_pc = "done"
    /\ fl_window = <<0, 120>>
    /\ fl_candles = <<FillCandle(0, 0), FillCandle(30, 0), FillCandle(0, 10)>>
    /\ Times(fl_filled) = <<0, 60>>
    /\ Times(fl_fmd_filled) = <<0, 60, 120>>

(***************************************************************************)
(* Properties of the file fetch_year_data writes                           *)
(***************************************************************************)
\* the row of the all-zero candle
IsSentinel(row) ==
    row.open = 0 /\ row.close = 0 /\ row.high = 0 /\ row.low = 0 /\ row.volume = 0

\* C22: the all-zero candle appears in the file written by fetch_year_data
\* only at timestamps before which the series has no candle with prices: a
\* gap that starts a fetch window is filled with carried-forward prices
\* whenever earlier candles of the series exist
C22_SentinelOnlyBeforeAnyCandle ==
    (pc = "Validating" /\ ~fileAtStart["year"].exists /\ files["year"].exists) =>
        LET rows == files["year"].rows
        IN \A i \in 1..Len(rows) : \A j \in 1..Len(rows) :
              (/\ IsSentinel(rows[i])
               /\ rows[j].unix_timestamp < rows[i].unix_timestamp)
                  => IsSentinel(rows[j])

(***************************************************************************)
(* validate_btc_dataset (validate_btc_dataset.py)                          *)
(*                                                                         *)
(* Time is counted in minutes.  The year files are those of the years      *)
(* 1..DsYears; year y holds the minutes y * YearMinutes up to              *)
(* (y + 1) * YearMinutes - 1, so a timestamp lies in the first minutes of  *)
(* the first of January when its remainder modulo YearMinutes is small.    *)
(* The rows have seven columns, positive prices with high and low around   *)
(* open and close, a unix_timestamp that agrees with the timestamp, and    *)
(* the first and the last row carry the expected prices.                   *)
(***************************************************************************)
\* number of year files (range(2011, 2026) in the program)
DsYears == 2
\* minutes of a year
YearMinutes == 4
\* longest year file
MaxYearLen == 2
\* acceptable_gap_minutes, and the timedelta(minutes=5) of the boundary check
acceptable_gap_minutes == 2

\* expected_start['timestamp']: the series starts in the course of year 1
ExpectedStart == 2 * YearMinutes - 2
\* expected_end['timestamp']: the series ends in the course of the last year
ExpectedEnd == DsYears * YearMinutes + 1

\* lines 185-186: the timestamp lies in the first minutes of a year
is_year_boundary(actual_ts) == (actual_ts % YearMinutes) <= acceptable_gap_minutes

\* lines 102-106: a unix_timestamp occurs twice in the year file
DuplicateInYear(year_data) ==
    \E i \in 1..Len(year_data) : \E j \in 1..Len(year_data) :
        i # j /\ year_data[i] = year_data[j]

\* lines 151-162: the gap between two year files is too large
LargeGap(prev_year_end, year_start) ==
    year_start - (prev_year_end + 1) > acceptable_gap_minutes

\* lines 180-193: the pair counts as a problematic gap
Problematic(prev_ts, actual_ts) ==
    LET expected_ts == prev_ts + 1
        gap == actual_ts - expected_ts
    IN /\ actual_ts # expected_ts
       /\ ~(gap <= acceptable_gap_minutes /\ is_year_boundary(actual_ts))

\* the value validate_btc_dataset returns for the year files years[1..N]
validate_btc_dataset(years) ==
    IF \E y \in 1..Len(years) : ~years[y].exists THEN FALSE
    ELSE IF \E y \in 1..Len(years) :
               \/ DuplicateInYear(years[y].rows)
               \/ years[y].rows = <<>>
         THEN FALSE
    ELSE IF years[1].rows[1] # ExpectedStart THEN FALSE
    ELSE IF years[Len(years)].rows[Len(years[Len(years)].rows)] # ExpectedEnd
         THEN FALSE
    ELSE IF \E y \in 2..Len(years) :
               LargeGap(years[y - 1].rows[Len(years[y - 1].rows)], years[y].rows[1])
         THEN FALSE
    ELSE LET all_data == Flatten([y \in 1..Len(years) |-> years[y].rows])
             gaps == Cardinality({i \in 2..Len(all_data) :
                                     Problematic(all_data[i - 1], all_data[i])})
         IN gaps = 0

\* the minutes a file of year y may hold: its own year, the last minute of
\* the year before and the first two of the year after
YearUniverse(y) == (y * YearMinutes - 1)..((y + 1) * YearMinutes + 1)

YearFiles(y) ==
    {NoFile} \cup {File(rows) : rows \in UNION {[1..n -> YearUniverse(y)] :
                                                  n \in 0..MaxYearLen}}

InitDataset ==
    /\ ds_years \in {years \in [1..DsYears -> UNION {YearFiles(y) : y \in 1..DsYears}] :
                        \A y \in 1..DsYears : years[y] \in YearFiles(y)}
    /\ ds_pc = "input"
    /\ ds_valid = FALSE
    /\ PipeIdle /\ RetryIdle /\ GapIdle /\ RangeIdle /\ RestIdle /\ LastIdle
    /\ FillIdle /\ DbIdle /\ CsvIdle

\* success = validate_btc_dataset()
ValidateDataset ==
    /\ ds_pc = "input"
    /\ ds_valid' = validate_btc_dataset(ds_years)
    /\ ds_pc' = "done"
    /\ UNCHANGED <<ds_years, pipeVars, retryVars, gapVars, rangeVars, restVars,
                   fillVars, dbVars, csvVars, lastVars>>

NextDataset == ValidateDataset

SpecDataset == InitDataset /\ [][NextDataset]_vars

(***************************************************************************)
(* Properties of validate_btc_dataset                                      *)
(***************************************************************************)
\* the entries of the year files one after the other
Concatenated == Flatten([y \in 1..Len(ds_years) |-> ds_years[y].rows])

\* positions of the concatenation that hold the first entry of a year file
\* other than the first file
FileStarts ==
    {Len(Flatten([z \in 1..y |-> ds_years[z].rows])) + 1 : y \in 1..(Len(ds_years) - 1)}

\* C23: validate_btc_dataset returns true only if every two consecutive
\* entries of the concatenated year files are exactly one minute apart,
\* except between the last entry of a year file and the first entry of the
\* next, where a forward gap of at most acceptable_gap_minutes is accepted
C23_ContinuousExceptAtFileBoundaries ==
    (ds_pc = "done" /\ ds_valid) =>
        \A i \in 2..Len(Concatenated) :
            LET gap == Concatenated[i] - (Concatenated[i - 1] + 1)
            IN \/ gap = 0
               \/ i \in FileStarts /\ gap > 0 /\ gap <= acceptable_gap_minutes

(***************************************************************************)
(* ultra_spammer.py: the table btc_price_data and insert_data_to_db        *)
(***************************************************************************)
\* timestamps (seconds) of the rows handed to insert_data_to_db: 0..MaxDbTs
MaxDbTs == 2
\* longest data_batch
MaxBatchLen == 2
\* number of insert_data_to_db calls
MaxInserts == 2
\* LIMIT: klines per request
LIMIT == 2
\* end_ms, in seconds
UltraSeconds == 7

\* a row of batch_data: (timestamp, open, high, low, close, volume)
DbRow(t, price) == <<t, price, price + 1, price - 1, price, 1>>

\* UNIQUE(timestamp): the table holds a row with the timestamp of the row
Conflicts(table, row) == \E i \in 1..Len(table) : table[i][1] = row[1]

\* an INSERT that replaces the stored row on conflict
insert_query_Overwrite(table, row) ==
    IF Conflicts(table, row)
    THEN [i \in 1..Len(table) |-> IF table[i][1] = row[1] THEN row ELSE table[i]]
    ELSE Append(table, row)

\* lines 198-202: INSERT INTO btc_price_data ... ON CONFLICT (timestamp)
\* DO NOTHING, for one row
insert_query(table, row) ==
    IF Conflicts(table, row) THEN table ELSE Append(table, row)

RECURSIVE execute_batch(_, _)
\* line 204: the statement executed for every row of data_batch, in order
execute_batch(table, data_batch) ==
    IF data_batch = <<>> THEN table
    ELSE execute_batch(insert_query(table, Head(data_batch)), Tail(data_batch))

\* lines 185-213: [ok, table]: the value returned and the table it leaves;
\* when the connection or a statement raises nothing is committed
insert_data_to_db(table, data_batch, raises) ==
    IF raises THEN [ok |-> FALSE, table |-> table]
    ELSE [ok |-> TRUE, table |-> execute_batch(table, data_batch)]

DbRows == {DbRow(t, price) : t \in 0..MaxDbTs, price \in {50, 60}}

Batches == UNION {[1..n -> DbRows] : n \in 0..MaxBatchLen}

InitInsert ==
    /\ db_table = <<>>
    /\ db_batch = <<>>
    /\ db_ok = FALSE
    /\ db_inserts = 0
    /\ us_outcomes = <<>>
    /\ us_pending = {}
    /\ us_completed_count = 0
    /\ us_pc = "idle"
    /\ PipeIdle /\ RetryIdle /\ GapIdle /\ RangeIdle /\ RestIdle /\ LastIdle
    /\ FillIdle /\ DatasetIdle /\ CsvIdle

\* success = insert_data_to_db(batch_data)
InsertBatch(data_batch, raises) ==
    /\ db_inserts < MaxInserts
    /\ LET r == insert_data_to_db(db_table, data_batch, raises)
       IN /\ db_table' = r.table
          /\ db_ok' = r.ok
    /\ db_batch' = data_batch
    /\ db_inserts' = db_inserts + 1
    /\ UNCHANGED <<us_outcomes, us_pending, us_completed_count, us_pc, pipeVars,
                   retryVars, gapVars, rangeVars, restVars, fillVars, dsVars,
                   csvVars, lastVars>>

NextInsert == \E data_batch \in Batches : \E raises \in BOOLEAN :
                 InsertBatch(data_batch, raises)

SpecInsert == InitInsert /\ [][NextInsert]_vars

(***************************************************************************)
(* ultra_spammer.py: the intervals and the pool                            *)
(***************************************************************************)
start_ms == 0
end_ms == UltraSeconds * 1000
\* step = LIMIT * 1000
step == LIMIT * 1000

RECURSIVE UltraIntervalsFrom(_)
\* lines 227-235: the while loop that builds intervals
UltraIntervalsFrom(current_ms) ==
    IF ~(current_ms <= end_ms) THEN <<>>
    ELSE LET period_end == Min(current_ms + step - 1, end_ms)
         IN <<<<current_ms, period_end>>>> \o UltraIntervalsFrom(period_end + 1000)

UltraIntervals == UltraIntervalsFrom(start_ms)

\* what the 200 response holds: the klines of the whole seconds between
\* startTime and endTime, LIMIT at most, oldest first
UltraKlines(s_ms, e_ms) ==
    LET first == (s_ms + 999) \div 1000
        last == Min(e_ms \div 1000, first + LIMIT - 1)
    IN [i \in 1..(last - first + 1) |-> DbRow(first + i - 1, 50)]

\* lines 39-110: batch_data returned by fetch_interval_data: the klines of
\* the response, or [] for an empty response and after the last retry
UltraModes == {"full", "empty", "exhausted"}

ultra_fetch_interval_data(s_ms, e_ms, mode) ==
    IF mode = "full"
    THEN UltraKlines(s_ms, Min(s_ms + step - 1, e_ms))
    ELSE <<>>

InitUltra ==
    /\ db_table = <<>>
    /\ db_batch = <<>>
    /\ db_ok = FALSE
    /\ db_inserts = 0
    /\ us_outcomes = [i \in 1..Len(UltraIntervals) |-> "none"]
    /\ us_pending = 1..Len(UltraIntervals)
    /\ us_completed_count = 0
    /\ us_pc = "running"
    /\ PipeIdle /\ RetryIdle /\ GapIdle /\ RangeIdle /\ RestIdle /\ LastIdle
    /\ FillIdle /\ DatasetIdle /\ CsvIdle

\* lines 253-275: one iteration of the as_completed loop: the future of
\* interval i completes and its batch is inserted at once
UltraComplete(i) ==
    /\ us_pc = "running"
    /\ i \in us_pending
    /\ \E mode \in UltraModes : \E raises \in BOOLEAN :
          LET batch_data == ultra_fetch_interval_data(UltraIntervals[i][1],
                                                      UltraIntervals[i][2], mode)
              r == insert_data_to_db(db_table, batch_data, raises)
          IN /\ us_outcomes' = [us_outcomes EXCEPT ![i] = mode]
             /\ IF batch_data # <<>>
                THEN /\ db_table' = r.table
                     /\ db_ok' = r.ok
                     /\ db_batch' = batch_data
                     /\ db_inserts' = db_inserts + 1
                ELSE /\ raises = FALSE
                     /\ UNCHANGED <<db_table, db_ok, db_batch, db_inserts>>
    /\ us_pending' = us_pending \ {i}
    /\ us_completed_count' = us_completed_count + 1
    /\ UNCHANGED <<us_pc, pipeVars, retryVars, gapVars, rangeVars, restVars,
                   fillVars, dsVars, csvVars, lastVars>>

\* the with block of the executor is left: every future has been read
UltraJoin ==
    /\ us_pc = "running"
    /\ us_pending = {}
    /\ us_pc' = "joined"
    /\ UNCHANGED <<db_table, db_batch, db_ok, db_inserts, us_outcomes,
                   us_pending, us_completed_count, pipeVars, retryVars, gapVars,
                   rangeVars, restVars, fillVars, dsVars, csvVars, lastVars>>

NextUltra == (\E i \in 1..Len(UltraIntervals) : UltraComplete(i)) \/ UltraJoin

SpecUltra == InitUltra /\ [][NextUltra]_vars

(***************************************************************************)
(* Properties of the persistence sink                                      *)
(***************************************************************************)
\* C24: no candle is written to the persistence sink before the parallel
\* phase has joined: while a future is still to be read the table is empty
\* and insert_data_to_db has not been called
C24_NoWriteBeforeJoin ==
    (us_pc = "running" /\ us_pending # {}) =>
        (db_table = <<>> /\ db_inserts = 0)

\* no two rows of the table have the same timestamp
UniqueTimestamps(table) ==
    \A i \in 1..Len(table) : \A j \in 1..Len(table) :
        table[i][1] = table[j][1] => i = j

\* every row of the batch has the timestamp of a stored row
AllStored(table, data_batch) ==
    \A k \in 1..Len(data_batch) : Conflicts(table, data_batch[k])

\* C25: after any sequence of insert_data_to_db calls the table holds at most
\* one row per timestamp; a call leaves every stored row as it was (first
\* write wins); a call whose batch was inserted before (every timestamp of
\* it is stored already) leaves the table as it was
C25_FirstWriteWins ==
    [][/\ UniqueTimestamps(db_table')
       /\ Len(db_table') >= Len(db_table)
       /\ \A i \in 1..Len(db_table) : db_table'[i] = db_table[i]
       /\ AllStored(db_table, db_batch') => db_table' = db_table
       /\ (db_ok /\ db_batch' = db_batch) => db_table' = db_table]_vars

\* a second batch that repeats a stored timestamp with another price and
\* brings a new timestamp
C25_Witness ==
    /\ db_inserts = 2
    /\ db_ok
    /\ db_batch = <<DbRow(0, 60), DbRow(1, 60)>>
    /\ db_table = <<DbRow(0, 50), DbRow(1, 60)>>

(***************************************************************************)
(* merge_csv_files on the text of a file: csv.DictReader, csv.DictWriter   *)
(*                                                                         *)
(* A line is the tuple of its fields in the order of the header.  The      *)
(* text of the unix_timestamp field is its sequence of decimal digits; the *)
(* other fields are compared only as texts.                                *)
(***************************************************************************)
\* longest file read
MaxCsvLen == 2

\* fieldnames of the DictWriter
fieldnames_HighLowSwapped ==
    <<"timestamp", "open", "close", "volume", "unix_timestamp", "low", "high">>

\* line 56: fieldnames = ['timestamp', 'open', 'close', 'volume',
\* 'unix_timestamp', 'high', 'low']
fieldnames ==
    <<"timestamp", "open", "close", "volume", "unix_timestamp", "high", "low">>

RECURSIVE int(_)
\* int(x) of a text of decimal digits
int(digits) ==
    IF digits = <<>> THEN 0
    ELSE int(SubSeq(digits, 1, Len(digits) - 1)) * 10 + digits[Len(digits)]

\* position of a column in a header
ColumnOf(header, name) == CHOOSE i \in 1..Len(header) : header[i] = name

\* csv.DictReader: the dict of a line, header field -> text
DictRow(header, line) ==
    [name \in Range(header) |-> line[ColumnOf(header, name)]]

\* csv.DictWriter.writerow: the texts of the row in the order of fieldnames
writerow(row) == [i \in 1..Len(fieldnames) |-> row[fieldnames[i]]]

\* the row with the key of all_data.sort and of seen_timestamps
Keyed(row) == [unix_timestamp |-> int(row["unix_timestamp"]), row |-> row]

\* [header, lines]: the output file merge_csv_files writes for the original
\* file (header, lines) when there is no missing-data file
merge_csv_text(header, lines) ==
    LET all_data == [i \in 1..Len(lines) |-> Keyed(DictRow(header, lines[i]))]
        merged == merge_csv_files(File(all_data), NoFile)
    IN [header |-> fieldnames,
        lines |-> [i \in 1..Len(merged.rows) |-> writerow(merged.rows[i].row)]]

\* texts of the unix_timestamp field: 0, 60, 120 and 060
UnixTexts == {<<0>>, <<6, 0>>, <<1, 2, 0>>, <<0, 6, 0>>}

\* the seven texts of a candle, by field
CsvFields(unix_text, price) ==
    [timestamp |-> Iso(int(unix_text)), open |-> price, close |-> price + 1,
     volume |-> 1, unix_timestamp |-> unix_text, high |-> price + 2,
     low |-> price - 1]

\* the headers of the files read: the columns in the order the programs
\* write them, and in another order
CsvHeaders ==
    {<<"timestamp", "open", "close", "volume", "unix_timestamp", "high", "low">>,
     <<"unix_timestamp", "timestamp", "open", "high", "low", "close", "volume">>}

CsvLine(header, unix_text, price) ==
    [i \in 1..Len(header) |-> CsvFields(unix_text, price)[header[i]]]

InitCsv ==
    /\ cv_header \in CsvHeaders
    /\ cv_lines \in UNION {[1..n -> {CsvLine(cv_header, u, p) :
                                        u \in UnixTexts, p \in {50, 60}}] :
                              n \in 0..MaxCsvLen}
    /\ cv_pc = "input"
    /\ cv_out_header = <<>>
    /\ cv_out_lines = <<>>
    /\ PipeIdle /\ RetryIdle /\ GapIdle /\ RangeIdle /\ RestIdle /\ LastIdle
    /\ FillIdle /\ DatasetIdle /\ DbIdle

\* merge_csv_files(original_file, missing_data_file, output_file) with a
\* missing-data file that does not exist
MergeText ==
    /\ cv_pc = "input"
    /\ LET out == merge_csv_text(cv_header, cv_lines)
       IN /\ cv_out_header' = out.header
          /\ cv_out_lines' = out.lines
    /\ cv_pc' = "done"
    /\ UNCHANGED <<cv_header, cv_lines, pipeVars, retryVars, gapVars, rangeVars,
                   restVars, fillVars, dsVars, dbVars, lastVars>>

\* the output file is merged once more
MergeTextAgain ==
    /\ cv_pc = "done"
    /\ cv_header' = cv_out_header
    /\ cv_lines' = cv_out_lines
    /\ LET out == merge_csv_text(cv_out_header, cv_out_lines)
       IN /\ cv_out_header' = out.header
          /\ cv_out_lines' = out.lines
    /\ cv_pc' = "again"
    /\ UNCHANGED <<pipeVars, retryVars, gapVars, rangeVars, restVars, fillVars,
                   dsVars, dbVars, lastVars>>

NextCsv == MergeText \/ MergeTextAgain

SpecCsv == InitCsv /\ [][NextCsv]_vars

(***************************************************************************)
(* Properties of the csv round trip                                        *)
(***************************************************************************)
\* the columns in the order the files are written in
FixedOrder ==
    <<"timestamp", "open", "close", "volume", "unix_timestamp", "high", "low">>

\* the text of a field of a line
FieldOf(header, line, name) == line[ColumnOf(header, name)]

\* the unix timestamps of the lines are strictly ascending
CsvSortedUnique ==
    \A i \in 1..(Len(cv_lines) - 1) :
        int(FieldOf(cv_header, cv_lines[i], "unix_timestamp"))
            < int(FieldOf(cv_header, cv_lines[i + 1], "unix_timestamp"))

\* C26: a record read from a file and written back by merge_csv_files keeps
\* its seven fields with the same texts, in the order timestamp, open,
\* close, volume, unix_timestamp, high, low; for a file with unique sorted
\* timestamps the records written are the records read, one for one
C26_RoundTripKeepsRecords ==
    cv_pc \in {"done", "again"} =>
        /\ cv_out_header = FixedOrder
        /\ \A i \in 1..Len(cv_out_lines) :
              /\ Len(cv_out_lines[i]) = 7
              /\ \E j \in 1..Len(cv_lines) :
                    \A k \in 1..7 :
                       cv_out_lines[i][k] = FieldOf(cv_header, cv_lines[j], FixedOrder[k])
        /\ CsvSortedUnique =>
              /\ Len(cv_out_lines) = Len(cv_lines)
              /\ \A i \in 1..Len(cv_lines) : \A k \in 1..7 :
                    cv_out_lines[i][k] = FieldOf(cv_header, cv_lines[i], FixedOrder[k])
              /\ cv_header = FixedOrder => cv_out_lines = cv_lines

\* a sorted file whose columns are in another order and whose second
\* timestamp is written 060
C26_Witness ==
    /\ cv_pc = "done"
    /\ cv_header # FixedOrder
    /\ cv_lines = <<CsvLine(cv_header, <<0>>, 50), CsvLine(cv_header, <<0, 6, 0>>, 60)>>
    /\ cv_out_lines = <<CsvLine(FixedOrder, <<0>>, 50), CsvLine(FixedOrder, <<0, 6, 0>>, 60)>>

(***************************************************************************)
(* Properties of the chunks of fetch_missing_range                         *)
(***************************************************************************)
\* the chunks fetch_missing_range built for the range of the call
RangeChunks == Chunks(mr_range[1], mr_range[2], MAX_CHUNK_SIZE)

\* C29: the chunks built by fetch_missing_range for a range with start_ts <=
\* end_ts partition the range: the first starts at start_ts, every next one
\* starts one period after the end of the one before, the last ends at
\* end_ts, each holds at least one and at most MAX_CANDLES_PER_CHUNK
\* timestamps, and there are no more chunks than timestamps in the range
C29_ChunksPartitionRange ==
    mr_pc = "done" =>
        /\ Len(mr_outcomes) = Len(RangeChunks)
        /\ Len(RangeChunks) >= 1
        /\ Len(RangeChunks) <= (mr_range[2] - mr_range[1]) \div 60 + 1
        /\ RangeChunks[1][1] = mr_range[1]
        /\ RangeChunks[Len(RangeChunks)][2] = mr_range[2]
        /\ \A i \in 1..(Len(RangeChunks) - 1) :
              RangeChunks[i + 1][1] = RangeChunks[i][2] + 60
        /\ \A i \in 1..Len(RangeChunks) :
              /\ RangeChunks[i][1] <= RangeChunks[i][2]
              /\ (RangeChunks[i][2] - RangeChunks[i][1]) \div 60 + 1
                    <= MAX_CANDLES_PER_CHUNK

\* a range of five timestamps cut into more than one chunk, the first one
\* full
C29_Witness ==
    /\ mr_pc = "done"
    /\ mr_range = <<60, 300>>
    /\ Len(RangeChunks) >= 2
    /\ RangeChunks[1] = <<60, MAX_CHUNK_SIZE>>
    /\ Len(mr_outcomes) = Len(RangeChunks)

(***************************************************************************)
(* Properties of the output of merge_csv_files                             *)
(***************************************************************************)
\* the unix timestamps of the rows of a file
TimestampsOf(file) == {RowsOf(file)[i].unix_timestamp : i \in 1..Len(RowsOf(file))}

\* C30: the output of merge_csv_files is strictly ascending by
\* unix_timestamp (so no timestamp is repeated), its timestamps are those of
\* the two input files together, and every row of it is a row of an input
C30_OutputIsSortedUnion ==
    (mg_pc = "done" /\ mg_ok) =>
        /\ mg_output.exists
        /\ \A i \in 1..(Len(mg_output.rows) - 1) :
              mg_output.rows[i].unix_timestamp < mg_output.rows[i + 1].unix_timestamp
        /\ TimestampsOf(mg_output) = TimestampsOf(mg_original) \cup TimestampsOf(mg_missing)
        /\ Range(mg_output.rows) \subseteq
              Range(RowsOf(mg_original)) \cup Range(RowsOf(mg_missing))

\* an unsorted original file with a repeated timestamp merged with a
\* missing-data file that brings another timestamp and repeats one
C30_Witness ==
    /\ mg_pc = "done"
    /\ mg_ok
    /\ mg_original = File(<<MergeRow(220, 50), MergeRow(100, 50), MergeRow(220, 51)>>)
    /\ mg_missing = File(<<MergeRow(100, 51), MergeRow(160, 51)>>)
    /\ mg_output = File(<<MergeRow(100, 50), MergeRow(160, 51), MergeRow(220, 50)>>)

(***************************************************************************)
(* Properties of find_and_fetch_missing_data_integrated                    *)
(***************************************************************************)
\* C31: when find_and_fetch_missing_data_integrated returns failure the
\* unit's file is exactly as it was when the repair started, and a repair
\* replaces the unit's file only by a file that passes validate_data
C31_FailedRepairKeepsOriginal ==
    [][(pc = "Repairing" /\ pc' # "Repairing") =>
          /\ pc' = "Failed" => files'["year"] = files["year"]
          /\ files'["year"] # files["year"] =>
                validate_data(files'["year"], None, None)]_vars

\* a repair that retrieved nothing: it has failed, the unit's file is there
\* and still does not pass validation, no complete file has been written
C31_Witness ==
    /\ pc = "Failed"
    /\ repairRuns = 1
    /\ files["year"].exists
    /\ ~validate_data(files["year"], None, None)
    /\ ~files["complete"].exists

(***************************************************************************)
(* Properties of the request windows of ultra_spammer.py                   *)
(***************************************************************************)
\* the windows [startTime, endTime] that hold the open time of second s
WindowsOf(s) ==
    {i \in 1..Len(UltraIntervals) :
        UltraIntervals[i][1] <= s * 1000 /\ s * 1000 <= UltraIntervals[i][2]}

\* C32: every whole second from start_ms to end_ms lies inside exactly one
\* of the request windows the pool has processed
C32_EverySecondInOneWindow ==
    us_pc = "joined" =>
        \A s \in (start_ms \div 1000)..(end_ms \div 1000) :
            Cardinality(WindowsOf(s)) = 1

(***************************************************************************)
(* main (main.py): the loop over the years                                 *)
(***************************************************************************)
\* number of years in range(STARTING_YEAR, CURRENT_YEAR + 1)
MainYears == 4
STARTING_YEAR == 2016
CURRENT_YEAR == STARTING_YEAR + MainYears - 1

\* how a call of process_single_year ends: it returns True or False, or
\* raises an Exception or KeyboardInterrupt
YearOutcomes == {"true", "false", "exception", "interrupt"}

\* a loop that also stops at a year that raised an exception
AfterYear_StopOnError(outcome) ==
    IF outcome \in {"interrupt", "exception"} THEN "summary" ELSE "loop"

\* lines 749-754: break on KeyboardInterrupt, the next year otherwise
AfterYear(outcome) == IF outcome = "interrupt" THEN "summary" ELSE "loop"

InitMain ==
    /\ mn_next = STARTING_YEAR
    /\ mn_started = <<>>
    /\ mn_successful_years = <<>>
    /\ mn_failed_years = <<>>
    /\ mn_interrupted = None
    /\ mn_pc = "loop"
    /\ PipeIdle /\ RetryIdle /\ GapIdle /\ RangeIdle /\ RestIdle /\ MoreIdle
    /\ DedupeIdle /\ FixIdle /\ Merge2015Idle

\* lines 742-754: one iteration of the for loop
ProcessYear(outcome) ==
    /\ mn_pc = "loop"
    /\ mn_next <= CURRENT_YEAR
    /\ mn_started' = Append(mn_started, [year |-> mn_next, outcome |-> outcome])
    /\ mn_successful_years' = IF outcome = "true"
                              THEN Append(mn_successful_years, mn_next)
                              ELSE mn_successful_years
    /\ mn_failed_years' = IF outcome \in {"false", "exception"}
                          THEN Append(mn_failed_years, mn_next)
                          ELSE mn_failed_years
    /\ mn_interrupted' = IF outcome = "interrupt" THEN Some(mn_next)
                         ELSE mn_interrupted
    /\ mn_pc' = AfterYear(outcome)
    /\ mn_next' = IF outcome = "interrupt" THEN mn_next ELSE mn_next + 1
    /\ UNCHANGED <<pipeVars, retryVars, gapVars, rangeVars, restVars, moreVars,
                   ddVars, fxVars, m15Vars>>

\* the range is exhausted: the final summary
MainSummary ==
    /\ mn_pc = "loop"
    /\ mn_next > CURRENT_YEAR
    /\ mn_pc' = "summary"
    /\ UNCHANGED <<mn_next, mn_started, mn_successful_years, mn_failed_years,
                   mn_interrupted, pipeVars, retryVars, gapVars, rangeVars,
                   restVars, moreVars, ddVars, fxVars, m15Vars>>

NextMain == (\E outcome \in YearOutcomes : ProcessYear(outcome)) \/ MainSummary

SpecMain == InitMain /\ [][NextMain]_vars

(***************************************************************************)
(* Properties of main                                                      *)
(***************************************************************************)
\* number of times a year occurs in a list
Occurrences(list, year) == Cardinality({i \in 1..Len(list) : list[i] = year})

\* C33: the years are processed in ascending order; a year that fails (false
\* or exception) does not keep the following years from being processed; an
\* interrupt during year y ends the loop with y the last year started; every
\* year that finished is in exactly one of successful_years and
\* failed_years, and the interrupted year is in neither
C33_YearsInOrderFailuresIsolated ==
    /\ \A i \in 1..Len(mn_started) : mn_started[i].year = STARTING_YEAR + i - 1
    /\ (mn_pc = "summary" /\ mn_interrupted = None) =>
          Len(mn_started) = CURRENT_YEAR - STARTING_YEAR + 1
    /\ \A i \in 1..Len(mn_started) :
          mn_started[i].outcome = "interrupt" =>
             /\ i = Len(mn_started)
             /\ mn_pc = "summary"
             /\ mn_interrupted = Some(mn_started[i].year)
    /\ mn_interrupted # None =>
          mn_started[Len(mn_started)].outcome = "interrupt"
    /\ \A i \in 1..Len(mn_started) :
          LET y == mn_started[i].year
              s == Occurrences(mn_successful_years, y)
              f == Occurrences(mn_failed_years, y)
          IN IF mn_started[i].outcome = "interrupt" THEN s = 0 /\ f = 0
             ELSE s + f = 1
    /\ \A y \in Range(mn_successful_years) \cup Range(mn_failed_years) :
          \E i \in 1..Len(mn_started) : mn_started[i].year = y

\* the first year fails, the second raises, the third succeeds, the fourth
\* is interrupted
C33_Witness ==
    /\ mn_pc = "summary"
    /\ Len(mn_started) = 4
    /\ mn_started[1].outcome = "false"
    /\ mn_started[2].outcome = "exception"
    /\ mn_started[3].outcome = "true"
    /\ mn_started[4].outcome = "interrupt"
    /\ mn_successful_years = <<STARTING_YEAR + 2>>
    /\ mn_failed_years = <<STARTING_YEAR, STARTING_YEAR + 1>>
    /\ mn_interrupted = Some(STARTING_YEAR + 3)

(***************************************************************************)
(* find_missing_timestamps of find_missing_data.py                         *)
(***************************************************************************)
\* only the first missing timestamp of a gap is listed
MissingBefore_OnlyFirst(expected_timestamp, timestamp) ==
    IF expected_timestamp < timestamp THEN <<expected_timestamp>> ELSE <<>>

\* lines 48-58: the timestamps appended for the gap before timestamp:
\* expected_timestamp, expected_timestamp + 60, ... below timestamp
MissingBefore(expected_timestamp, timestamp) ==
    IF expected_timestamp < timestamp
    THEN [k \in 1..((timestamp - expected_timestamp + 59) \div 60) |->
             expected_timestamp + (k - 1) * 60]
    ELSE <<>>

RECURSIVE FindDataLoop(_, _, _, _)
\* lines 46-61: the for loop over the sorted timestamps
FindDataLoop(timestamps, i, expected_timestamp, missing_ranges) ==
    IF i > Len(timestamps) THEN missing_ranges
    ELSE FindDataLoop(timestamps, i + 1, timestamps[i] + 60,
                      missing_ranges \o MissingBefore(expected_timestamp,
                                                      timestamps[i]))

\* the list of single missing timestamps returned for a readable file with
\* the given unix_timestamp column
fmdata_find_missing_timestamps(column) ==
    IF column = <<>> THEN <<>>
    ELSE LET timestamps == SortInts(column)
         IN FindDataLoop(timestamps, 1, timestamps[1], <<>>)

(***************************************************************************)
(* Properties that relate the two gap detectors                            *)
(***************************************************************************)
\* every timestamp is a multiple of 60 seconds away from the first one
OnGrid(column) ==
    \A i \in 1..Len(column) : (column[i] - SortInts(column)[1]) % 60 = 0

\* C34: for a series on the grid (duplicates allowed, any order) grouping the
\* timestamps returned by find_missing_data.py's find_missing_timestamps
\* with group_consecutive_timestamps gives the list of ranges returned by
\* main.py's find_missing_timestamps
C34_GapDetectorsAgree ==
    (gd_pc = "done" /\ OnGrid(gd_timestamps)) =>
        group_consecutive_timestamps(fmdata_find_missing_timestamps(gd_timestamps))
            = gd_ranges

\* an unsorted series with the gap 60..180 of three minutes
C34_Witness ==
    /\ gd_pc = "done"
    /\ gd_timestamps = <<240, 0, 240>>
    /\ gd_ranges = <<<<60, 180>>>>
    /\ fmdata_find_missing_timestamps(gd_timestamps) = <<60, 120, 180>>

\* 'duration_minutes': (range_end - range_start) // 60 + 1
duration_minutes(range) == (range[2] - range[1]) \div 60 + 1

\* C35: expanding the ranges returned by find_missing_timestamps into single
\* timestamps and regrouping them with group_consecutive_timestamps returns
\* the same ranges in the same order; duration_minutes of a range is the
\* number of timestamps it expands to, and the durations sum to the number
\* of missing timestamps
C35_ExpandAndRegroupIsIdentity ==
    gd_pc = "done" =>
        /\ group_consecutive_timestamps(ExpandRanges(gd_ranges)) = gd_ranges
        /\ \A i \in 1..Len(gd_ranges) :
              duration_minutes(gd_ranges[i])
                 = Len(Expand(gd_ranges[i][1], gd_ranges[i][2]))
        /\ Sum([i \in 1..Len(gd_ranges) |-> duration_minutes(gd_ranges[i])])
              = Len(ExpandRanges(gd_ranges))
        /\ gd_timestamps # <<>> =>
              Len(ExpandRanges(gd_ranges)) = Cardinality(GapAbsent)

\* a series with two gaps of one minute each
C35_Witness ==
    /\ gd_pc = "done"
    /\ gd_timestamps = <<0, 120, 240>>
    /\ gd_ranges = <<<<60, 60>>, <<180, 180>>>>
    /\ ExpandRanges(gd_ranges) = <<60, 180>>

(***************************************************************************)
(* dedupe_all_years.py: dedupe_year                                        *)
(***************************************************************************)
\* invocations of dedupe_year on the same year file
MaxDedupeRuns == 2

\* a replacement that is made whether or not a duplicate was removed
ReplaceOriginal_Always(duplicates_removed) == TRUE

\* line 38: 'if duplicates_removed > 0' - the original is renamed to the
\* backup and the deduplicated file takes its place
ReplaceOriginal(duplicates_removed) == duplicates_removed > 0

RECURSIVE DedupeLoop(_, _, _)
\* lines 24-32: one pass over the rows after the header; a row is written
\* when its unix_timestamp was not seen before, counted as a duplicate
\* otherwise
DedupeLoop(rows, i, acc) ==
    IF i > Len(rows) THEN acc
    ELSE LET unix_ts == rows[i].unix_timestamp
         IN DedupeLoop(rows, i + 1,
              IF unix_ts \notin acc.seen_timestamps
              THEN [acc EXCEPT !.seen_timestamps = @ \cup {unix_ts},
                               !.written = Append(@, rows[i]),
                               !.total_rows = @ + 1]
              ELSE [acc EXCEPT !.duplicates_removed = @ + 1,
                               !.total_rows = @ + 1])

\* dedupe_year(year) on the year file and its backup: the files and the two
\* counters after the call.  A missing input file raises at line 16 before
\* anything is written.
dedupe_year(file, backup) ==
    IF ~file.exists
    THEN [raised |-> TRUE, file |-> file, backup |-> backup,
          total_rows |-> 0, duplicates_removed |-> 0]
    ELSE LET acc == DedupeLoop(file.rows, 1,
                       [seen_timestamps |-> {}, written |-> <<>>,
                        total_rows |-> 0, duplicates_removed |-> 0])
         IN IF ReplaceOriginal(acc.duplicates_removed)
            THEN [raised |-> FALSE, file |-> File(acc.written),
                  backup |-> file,
                  total_rows |-> acc.total_rows,
                  duplicates_removed |-> acc.duplicates_removed]
            ELSE [raised |-> FALSE, file |-> file, backup |-> backup,
                  total_rows |-> acc.total_rows,
                  duplicates_removed |-> acc.duplicates_removed]

InitDedupe ==
    /\ dd_file \in OriginalFiles
    /\ dd_backup = NoFile
    /\ dd_total_rows = 0
    /\ dd_duplicates_removed = 0
    /\ dd_runs = 0
    /\ dd_pc = "ready"
    /\ PipeIdle /\ RetryIdle /\ GapIdle /\ RangeIdle /\ RestIdle /\ MoreIdle
    /\ MainIdle /\ FixIdle /\ Merge2015Idle

DedupeYear ==
    /\ dd_pc # "idle"
    /\ dd_runs < MaxDedupeRuns
    /\ LET r == dedupe_year(dd_file, dd_backup)
       IN /\ dd_file' = r.file
          /\ dd_backup' = r.backup
          /\ dd_total_rows' = r.total_rows
          /\ dd_duplicates_removed' = r.duplicates_removed
          /\ dd_pc' = IF r.raised THEN "raised" ELSE "done"
    /\ dd_runs' = dd_runs + 1
    /\ UNCHANGED <<pipeVars, retryVars, gapVars, rangeVars, restVars,
                   moreVars, mainVars, fxVars, m15Vars>>

NextDedupe == DedupeYear

SpecDedupe == InitDedupe /\ [][NextDedupe]_vars

\* the positions of the rows that are the first of their timestamp
FirstPositions(rows) ==
    {i \in 1..Len(rows) :
        \A j \in 1..(i - 1) : rows[j].unix_timestamp # rows[i].unix_timestamp}

\* out is rows restricted to the positions in keep, in the order of rows
IsRestriction(out, rows, keep) ==
    /\ Len(out) = Cardinality(keep)
    /\ \A i \in keep : out[Cardinality({j \in keep : j <= i})] = rows[i]

HasDuplicates(rows) == FirstPositions(rows) # 1..Len(rows)

\* C36: after dedupe_year the year file holds each unix_timestamp once, the
\* row kept for a timestamp is its first row in file order, the kept rows
\* keep their relative order and duplicates_removed = rows read - rows kept;
\* a file without duplicates is left unchanged with no backup made, and a
\* second run changes nothing
C36_DedupeKeepsFirstRows ==
    [][(dd_runs' = dd_runs + 1 /\ dd_file.exists) =>
          /\ dd_file'.exists
          /\ ~HasDuplicates(dd_file'.rows)
          /\ IsRestriction(dd_file'.rows, dd_file.rows,
                           FirstPositions(dd_file.rows))
          /\ dd_total_rows' = Len(dd_file.rows)
          /\ dd_duplicates_removed' = dd_total_rows' - Len(dd_file'.rows)
          /\ ~HasDuplicates(dd_file.rows) =>
                (dd_file' = dd_file /\ dd_backup' = dd_backup)
          /\ dd_runs >= 1 => (dd_file' = dd_file /\ dd_backup' = dd_backup)
      ]_vars

\* two runs on a file of three rows with one repeated timestamp: the first
\* run removed the repeated row and kept the original as the backup, the
\* second run found nothing to remove
C36_Witness ==
    /\ dd_runs = 2
    /\ dd_pc = "done"
    /\ dd_backup.exists
    /\ Len(dd_backup.rows) = 3
    /\ Len(dd_file.rows) = 2
    /\ dd_backup.rows[1].unix_timestamp = dd_backup.rows[3].unix_timestamp
    /\ dd_backup.rows[1] # dd_backup.rows[3]
    /\ dd_file.rows = SubSeq(dd_backup.rows, 1, 2)
    /\ dd_duplicates_removed = 0

(***************************************************************************)
(* fix_all_corrupted_data.py: fix_corrupted_data_all_years, one year file  *)
(***************************************************************************)
\* rows of the year file handed to the fixer
MaxFixLen == 4

\* prices of a row: 0 in all four columns marks a corrupted row
FixPrices == {0, 50, 51}

\* the year files: no file, or rows one minute apart whose four prices are
\* all FixPrices values.  Rows that raise ValueError or IndexError (line 57)
\* are not part of this universe.
FixFiles ==
    {NoFile} \cup
    UNION {{File([i \in 1..n |-> MergeRow(100 + 60 * (i - 1), price[i])]) :
               price \in [1..n -> FixPrices]} : n \in 0..MaxFixLen}

\* line 37: open, close, high and low are all zero
AllZero(row) == row.open = 0 /\ row.close = 0 /\ row.high = 0 /\ row.low = 0

\* lines 40-45: the row with the previous valid row's prices and volume 0
fixed_row(row, prev_valid_row) ==
    [row EXCEPT !.open = prev_valid_row.open,
                !.close = prev_valid_row.close,
                !.high = prev_valid_row.high,
                !.low = prev_valid_row.low,
                !.volume = 0]

RECURSIVE FixLoop(_, _, _)
\* lines 29-58: one pass over the rows after the header
FixLoop(rows, i, acc) ==
    IF i > Len(rows) THEN acc
    ELSE LET row == rows[i]
         IN FixLoop(rows, i + 1,
              IF AllZero(row)
              THEN IF acc.prev_valid_row # None
                   THEN [acc EXCEPT
                           !.rows = Append(@, fixed_row(row, Val(acc.prev_valid_row))),
                           !.fixed_this_year = @ + 1]
                   ELSE acc
              ELSE [acc EXCEPT !.rows = Append(@, row),
                               !.prev_valid_row = Some(row)])

\* lines 14-71 for one year: the file, its .backup3 and the number of fixed
\* rows.  The file is written back only when a row was fixed.
fix_year(file, backup) ==
    IF ~file.exists
    THEN [file |-> file, backup |-> backup, fixed_this_year |-> 0]
    ELSE LET acc == FixLoop(file.rows, 1,
                      [rows |-> <<>>, prev_valid_row |-> None,
                       fixed_this_year |-> 0])
         IN IF acc.fixed_this_year > 0
            THEN [file |-> File(acc.rows), backup |-> file,
                  fixed_this_year |-> acc.fixed_this_year]
            ELSE [file |-> file, backup |-> backup,
                  fixed_this_year |-> 0]

InitFix ==
    /\ fx_file \in FixFiles
    /\ fx_backup = NoFile
    /\ fx_fixed = 0
    /\ fx_pc = "ready"
    /\ PipeIdle /\ RetryIdle /\ GapIdle /\ RangeIdle /\ RestIdle /\ MoreIdle
    /\ MainIdle /\ DedupeIdle /\ Merge2015Idle

FixYear ==
    /\ fx_pc = "ready"
    /\ LET r == fix_year(fx_file, fx_backup)
       IN /\ fx_file' = r.file
          /\ fx_backup' = r.backup
          /\ fx_fixed' = r.fixed_this_year
    /\ fx_pc' = IF fx_file.exists THEN "done" ELSE "skipped"
    /\ UNCHANGED <<pipeVars, retryVars, gapVars, rangeVars, restVars,
                   moreVars, mainVars, ddVars, m15Vars>>

NextFix == FixYear

SpecFix == InitFix /\ [][NextFix]_vars

\* the last row before position i that is not all zero, or None
LastValidBefore(rows, i) ==
    LET valid == {j \in 1..(i - 1) : ~AllZero(rows[j])}
    IN IF valid = {} THEN None
       ELSE Some(rows[CHOOSE j \in valid : \A k \in valid : k <= j])

\* C37: after fix_corrupted_data_all_years has processed a year file the
\* file holds no row whose open, close, high and low are all zero, and every
\* such row that followed a valid row carries that row's prices with
\* volume 0, wherever the zero rows are, the start of the file included
C37_NoAllZeroRowRemains ==
    [][(fx_pc = "ready" /\ fx_pc' = "done") =>
          /\ \A i \in 1..Len(fx_file'.rows) : ~AllZero(fx_file'.rows[i])
          /\ \A i \in 1..Len(fx_file.rows) :
                (AllZero(fx_file.rows[i])
                    /\ LastValidBefore(fx_file.rows, i) # None) =>
                   \E k \in 1..Len(fx_file'.rows) :
                      fx_file'.rows[k] =
                         fixed_row(fx_file.rows[i],
                                   Val(LastValidBefore(fx_file.rows, i)))
      ]_vars

\* rows is in strictly ascending unix_timestamp order
StrictlyAscending(rows) ==
    \A i \in 1..(Len(rows) - 1) :
        rows[i].unix_timestamp < rows[i + 1].unix_timestamp

\* C38: merge_csv_files returns false and writes no output file when the
\* original file does not exist; when only the missing-data file does not
\* exist it returns true and the output is the original's rows sorted by
\* timestamp with duplicates removed
C38_MissingInputFiles ==
    mg_pc = "done" =>
        /\ ~mg_original.exists => (~mg_ok /\ mg_output = NoFile)
        /\ (mg_original.exists /\ ~mg_missing.exists) =>
              /\ mg_ok
              /\ mg_output.exists
              /\ StrictlyAscending(mg_output.rows)
              /\ Range(Timestamps(mg_output.rows))
                    = Range(Timestamps(mg_original.rows))
              /\ \A i \in 1..Len(mg_output.rows) :
                    mg_output.rows[i]
                       = FirstAt(mg_original.rows,
                                 mg_output.rows[i].unix_timestamp)

\* an unsorted original with a repeated timestamp and no missing-data file
C38_Witness ==
    /\ mg_pc = "done"
    /\ mg_ok
    /\ ~mg_missing.exists
    /\ mg_original.rows = <<MergeRow(220, 50), MergeRow(100, 51), MergeRow(220, 51)>>
    /\ mg_output.rows = <<MergeRow(100, 51), MergeRow(220, 50)>>
    /\ mg_duplicates_removed = 1

(***************************************************************************)
(* merge_2015_data.py: merge_2015_data                                     *)
(***************************************************************************)
\* minutes the rows of the two exchange files are drawn from
MaxM15Ts == 3

M15Ts == {100 + 60 * k : k \in 0..(MaxM15Ts - 1)}

\* the rows of an exchange file: at least one row, ascending, one row for a
\* timestamp, every price of the file the same
ExchangeData(price) ==
    {[i \in 1..Len(SortedKeys(T)) |-> MergeRow(SortedKeys(T)[i], price)] :
        T \in (SUBSET M15Ts) \ {{}}}

\* what the operator can type at 'Enter choice (1/2/3): '
Choices == {"1", "2", "3"}

\* line 39: the last Bitstamp row and the first Coinbase row have the same
\* timestamp text
OverlapDetected(bitstamp_data, coinbase_data) ==
    bitstamp_data[Len(bitstamp_data)].timestamp = coinbase_data[1].timestamp

\* lines 33-63: merged_data for the two files and the operator's answer
merge_2015_data(bitstamp_data, coinbase_data, choice) ==
    IF OverlapDetected(bitstamp_data, coinbase_data)
    THEN IF choice = "1" THEN bitstamp_data \o Tail(coinbase_data)
         ELSE IF choice = "2"
              THEN SubSeq(bitstamp_data, 1, Len(bitstamp_data) - 1)
                      \o coinbase_data
              ELSE bitstamp_data \o coinbase_data
    ELSE bitstamp_data \o coinbase_data

InitMerge2015 ==
    /\ m15_bitstamp \in ExchangeData(50)
    /\ m15_coinbase \in ExchangeData(51)
    /\ m15_choice = ""
    /\ m15_output = NoFile
    /\ m15_pc = "ready"
    /\ PipeIdle /\ RetryIdle /\ GapIdle /\ RangeIdle /\ RestIdle /\ MoreIdle
    /\ MainIdle /\ DedupeIdle /\ FixIdle

\* one run of merge_2015_data; the operator is asked only when the overlap
\* is detected
Merge2015 ==
    /\ m15_pc = "ready"
    /\ \E choice \in Choices :
          /\ m15_choice' = IF OverlapDetected(m15_bitstamp, m15_coinbase)
                           THEN choice ELSE ""
          /\ m15_output' = File(merge_2015_data(m15_bitstamp, m15_coinbase, choice))
    /\ m15_pc' = "done"
    /\ UNCHANGED <<m15_bitstamp, m15_coinbase,
                   pipeVars, retryVars, gapVars, rangeVars, restVars,
                   moreVars, mainVars, ddVars, fxVars>>

NextMerge2015 == Merge2015

SpecMerge2015 == InitMerge2015 /\ [][NextMerge2015]_vars

\* the ranges of the two files touch or overlap
TouchOrOverlap ==
    m15_coinbase[1].unix_timestamp
        <= m15_bitstamp[Len(m15_bitstamp)].unix_timestamp

\* C39: the series written by merge_2015_data holds one row for a timestamp
\* at most and is in ascending timestamp order, for every pair of input
\* files whose ranges touch or overlap and every answer of the operator
C39_MergedSeriesSortedUnique ==
    (m15_pc = "done" /\ TouchOrOverlap) => StrictlyAscending(m15_output.rows)

====
